---- MODULE Spec2Model ----
(***************************************************************************)
(* Text layout of core/embed/rust/src/ui/component/text/layout.rs:         *)
(* Span::fit_horizontally (the line fitter) and TextLayout::layout_text    *)
(* (the driver that walks a text through the fitter and reports events to  *)
(* a LayoutSink).                                                          *)
(*                                                                         *)
(* A text is a sequence of bytes, the UTF-8 encoding of a sequence of      *)
(* code points.  Lengths and offsets are byte offsets, as in the source.   *)
(***************************************************************************)
EXTENDS Integers, Sequences, FiniteSets, TLC

\* ------------------------------------------------------------- bounds
\* Longest text, in characters, given to layout_text.
MaxChars == 3
\* Longest text, in characters, given to fit_horizontally on its own.
MaxSpanChars == 3
\* Widest max_width given to fit_horizontally on its own.
MaxWidth == 3
\* Most spans one spans_from run collects.
MaxSpans == 4

\* ------------------------------------------------------------- characters
ASCII_LF == 10
ASCII_CR == 13
ASCII_SPACE == 32
ASCII_HYPHEN == 45
ASCII_DOT == 46
LETTER_A == 97
LETTER_E_ACUTE == 233

\* The code points texts are made of: a letter, a two-byte letter and the
\* three whitespace characters.
Alphabet == {LETTER_A, LETTER_E_ACUTE, ASCII_SPACE, ASCII_LF, ASCII_CR}

\* UTF-8 encoding of one code point (one or two bytes).
EncodeChar(cp) ==
    IF cp < 128 THEN <<cp>>
    ELSE <<192 + (cp \div 64), 128 + (cp % 64)>>

RECURSIVE Encode(_)
Encode(cps) ==
    IF cps = <<>> THEN <<>> ELSE EncodeChar(Head(cps)) \o Encode(Tail(cps))

\* A continuation byte of a multi-byte character: 0b10xxxxxx.
IsContinuationByte(b) == b >= 128 /\ b < 192

\* str::is_char_boundary
is_char_boundary(text, i) ==
    \/ i = 0
    \/ i = Len(text)
    \/ i > 0 /\ i < Len(text) /\ ~IsContinuationByte(text[i + 1])

\* Number of bytes of the character whose first byte is b.
CharLenAt(b) == IF b >= 192 THEN 2 ELSE 1

\* str::char_indices: the sequence of <<byte offset, code point>>.
RECURSIVE CharIndicesFrom(_, _)
CharIndicesFrom(text, i) ==
    IF i >= Len(text) THEN <<>>
    ELSE LET b == text[i + 1]
             n == CharLenAt(b)
             cp == IF n = 1 THEN b ELSE (b - 192) * 64 + (text[i + 2] - 128)
         IN  <<<<i, cp>>>> \o CharIndicesFrom(text, i + n)

char_indices(text) == CharIndicesFrom(text, 0)

\* &text[from..to] (byte offsets, to exclusive).
Slice(text, from, to) == SubSeq(text, from + 1, to)

\* All sequences over S of length at most n.
SeqsUpTo(S, n) == UNION {[1..k -> S] : k \in 0..n}

\* The texts of at most n characters.
Texts(n) == {Encode(cps) : cps \in SeqsUpTo(Alphabet, n)}

\* ------------------------------------------------------------- fonts
\* A font is a record: fixed (the tests' Fixed metrics) or proportional.
\* tests::FIXED_FONT: width 1, height 1.
FIXED_FONT == [fixed |-> TRUE, width |-> 1, height |-> 1, text_height |-> 1]

\* A proportional display font: line height 2, text height 1.
PROP_FONT == [fixed |-> FALSE, width |-> 0, height |-> 2, text_height |-> 1]

\* A proportional display font one unit high: half its line height is 0.
SMALL_FONT == [fixed |-> FALSE, width |-> 0, height |-> 1, text_height |-> 1]

\* Advance width of a glyph of the proportional font.
GlyphWidth(ch) == IF ch = LETTER_E_ACUTE THEN 2 ELSE 1

RECURSIVE GlyphsWidth(_)
GlyphsWidth(cis) ==
    IF cis = <<>> THEN 0 ELSE GlyphWidth(Head(cis)[2]) + GlyphsWidth(Tail(cis))

\* char_width of a font whose glyphs take no width.
char_width_zero(font, ch) == 0

\* GlyphMetrics::char_width
char_width(font, ch) == IF font.fixed THEN font.width ELSE GlyphWidth(ch)

\* GlyphMetrics::line_height
line_height(font) == font.height

\* GlyphMetrics::text_width: Fixed multiplies the byte length, a display
\* font sums the glyph widths.
text_width(font, text) ==
    IF font.fixed THEN font.width * Len(text) ELSE GlyphsWidth(char_indices(text))

\* Font::text_height
text_height(font) == font.text_height

\* ------------------------------------------------------------- options
None == [some |-> FALSE, val |-> 0]
Some(v) == [some |-> TRUE, val |-> v]
unwrap_or(opt, d) == IF opt.some THEN opt.val ELSE d

\* Rust's integer division, which truncates toward zero.
TruncDiv(a, b) == IF a >= 0 THEN a \div b ELSE -((-a) \div b)

\* ------------------------------------------------------------- span fitter
LineBreakings == {"BreakAtWhitespace", "BreakWordsAndInsertHyphen", "BreakWordsNoHyphen"}

\* is_whitespace with the CR forgotten.
is_whitespace_no_cr(ch) == ch = ASCII_SPACE \/ ch = ASCII_LF

is_whitespace(ch) == ch = ASCII_SPACE \/ ch = ASCII_LF \/ ch = ASCII_CR

\* Offset of the character after the k-th one: char_indices_iter.peek().
NextIdx(cis, k, text) == IF k < Len(cis) THEN cis[k + 1][1] ELSE Len(text)

\* "Break after this character" by index arithmetic: one byte past the
\* character's offset.
BreakAfterLengthRaw(cis, k, text) == cis[k][1] + 1

\* "Break after this character": the assignment to line.length.
BreakAfterLength(cis, k, text) == NextIdx(cis, k, text)

\* The width to keep free at a mid-word break, the hyphen forgotten.
incomplete_word_end_width_no_hyphen(font, text, max_width, breaking, line_ending_space) ==
    IF text_width(font, text) <= max_width THEN 0
    ELSE unwrap_or(line_ending_space, 0)

\* The width to keep free at a mid-word break with the hyphen's width kept
\* free under every policy.
incomplete_word_end_width_any_policy(font, text, max_width, breaking, line_ending_space) ==
    IF text_width(font, text) <= max_width THEN 0
    ELSE IF line_ending_space.some THEN line_ending_space.val
    ELSE char_width(font, ASCII_HYPHEN)

\* The width to keep free at a mid-word break.
incomplete_word_end_width(font, text, max_width, breaking, line_ending_space) ==
    IF text_width(font, text) <= max_width THEN 0
    ELSE IF line_ending_space.some THEN line_ending_space.val
    ELSE IF breaking # "BreakWordsNoHyphen" THEN char_width(font, ASCII_HYPHEN)
    ELSE 0

\* Whether a mid-word break gets a hyphen, the reserved end width ignored.
use_hyphens_despite_reserve(font, text, max_width, breaking, line_ending_space) ==
    /\ breaking # "BreakWordsNoHyphen"
    /\ ~(text_width(font, text) <= max_width)

\* Whether a mid-word break gets a hyphen.
use_hyphens(font, text, max_width, breaking, line_ending_space) ==
    /\ breaking # "BreakWordsNoHyphen"
    /\ ~(text_width(font, text) <= max_width)
    /\ ~line_ending_space.some

\* The width to keep free at a whitespace break, kept free even when the
\* whole text fits.
complete_word_end_width_always(font, text, max_width, line_ending_space) ==
    unwrap_or(line_ending_space, 0)

\* The width to keep free at a whitespace break.
complete_word_end_width(font, text, max_width, line_ending_space) ==
    IF text_width(font, text) <= max_width THEN 0
    ELSE unwrap_or(line_ending_space, 0)

\* The break before a whitespace with the halved advance given to LF as well.
WhitespaceBreakHalved(line, font, i, ch, span_width) ==
    [length |-> i,
     skip_next_chars |-> 1,
     advance |-> [x |-> span_width,
                  y |-> IF ch = ASCII_CR \/ ch = ASCII_LF
                        THEN line_height(font) \div 2 ELSE line.advance.y],
     insert_hyphen_before_line_break |-> FALSE]

\* The break before a whitespace that leaves the whitespace in the text.
WhitespaceBreakNoSkip(line, font, i, ch, span_width) ==
    [length |-> i,
     skip_next_chars |-> 0,
     advance |-> [x |-> span_width,
                  y |-> IF ch = ASCII_CR THEN line_height(font) \div 2 ELSE line.advance.y],
     insert_hyphen_before_line_break |-> FALSE]

\* The break before a whitespace with the full line height at a CR too.
WhitespaceBreakNotHalved(line, font, i, ch, span_width) ==
    [length |-> i,
     skip_next_chars |-> 1,
     advance |-> [x |-> span_width, y |-> line.advance.y],
     insert_hyphen_before_line_break |-> FALSE]

\* The span of a hard or soft break before the whitespace ch at offset i.
WhitespaceBreak(line, font, i, ch, span_width) ==
    [length |-> i,
     skip_next_chars |-> 1,
     advance |-> [x |-> span_width,
                  y |-> IF ch = ASCII_CR THEN line_height(font) \div 2 ELSE line.advance.y],
     insert_hyphen_before_line_break |-> FALSE]

\* The scan of fit_horizontally from the k-th character on.  c holds the
\* values fixed before the loop.
RECURSIVE FitScan(_, _, _, _, _)
FitScan(c, k, line, span_width, found_any_whitespace) ==
    IF k > Len(c.cis)
    THEN \* The whole text is fitting on the current line.
         [length |-> Len(c.text),
          skip_next_chars |-> 0,
          advance |-> [x |-> span_width, y |-> 0],
          insert_hyphen_before_line_break |-> FALSE]
    ELSE
    LET i == c.cis[k][1]
        ch == c.cis[k][2]
        cw == char_width(c.font, ch)
    IN  IF is_whitespace(ch) /\ span_width + c.cwe <= c.max_width
        THEN LET brk == WhitespaceBreak(line, c.font, i, ch, span_width)
             IN  IF ch = ASCII_LF \/ ch = ASCII_CR
                 THEN brk
                 ELSE FitScan(c, k + 1, brk, span_width + cw, TRUE)
        ELSE IF span_width + cw > c.max_width
        THEN line
        ELSE LET have_space_for_break == span_width + cw + c.iwe <= c.max_width
                 can_break_word ==
                     c.breaking # "BreakAtWhitespace" \/ ~found_any_whitespace
                 line2 ==
                     IF have_space_for_break /\ can_break_word
                     THEN [length |-> BreakAfterLength(c.cis, k, c.text),
                           skip_next_chars |-> 0,
                           advance |-> [x |-> span_width + cw, y |-> line.advance.y],
                           insert_hyphen_before_line_break |-> c.use_hyphens]
                     ELSE line
             IN  FitScan(c, k + 1, line2, span_width + cw, found_any_whitespace)

\* Span::fit_horizontally: the values fixed before the loop (c) and the
\* initial line, then the scan.
fit_horizontally(text, max_width, font, breaking, line_ending_space) ==
    CHOOSE span \in
        {FitScan(c, 1,
                 [length |-> 0,
                  skip_next_chars |-> 0,
                  advance |-> [x |-> 0, y |-> line_height(font)],
                  insert_hyphen_before_line_break |-> FALSE],
                 0, FALSE) :
            c \in {[text |-> text,
                     cis |-> char_indices(text),
                     max_width |-> max_width,
                     font |-> font,
                     breaking |-> breaking,
                     iwe |-> incomplete_word_end_width(font, text, max_width, breaking,
                                                       line_ending_space),
                     cwe |-> complete_word_end_width(font, text, max_width,
                                                     line_ending_space),
                     use_hyphens |-> use_hyphens(font, text, max_width, breaking,
                                                 line_ending_space)]}} : TRUE

\* ------------------------------------------------------------- state
VARIABLES
    text,            \* the text given to layout_text or spans_from
    layout,          \* the TextLayout (bounds, paddings, style, align)
    continues,       \* continues_from_prev_page
    init_cursor,     \* the cursor at the call of layout_text
    cursor,          \* the caller's cursor, mutated in place
    remaining_text,  \* the text not yet consumed
    events,          \* the calls made on the sink so far, in order
    fit,             \* the LayoutFit returned, once returned
    args,            \* the arguments fit_horizontally is called with
    spans,           \* the spans fit_horizontally returned so far, in order, each
                     \* with the text it was given and the cursor at the call
    pc,              \* position in layout_text or spans_from
    sink,            \* the LayoutSink of the pass and what it has put out
    calls,           \* the passes that have returned before the current one
    frame,           \* the Confirm dialog that run() drives
    ret              \* the last call of Confirm::event: its event and its result

vars == <<text, layout, continues, init_cursor, cursor, remaining_text, events,
          fit, args, spans, pc, sink, calls, frame, ret>>

NoFrame == [none |-> TRUE]
NoRet ==
    [event |-> [kind |-> "none", pos |-> "none"], msg |-> "None",
     evaluated |-> <<>>, clicked |-> {}]
NoLayout == [none |-> TRUE]
NoCursor == [x |-> 0, y |-> 0]
NoFit == [kind |-> "none", processed_chars |-> 0, height |-> 0]

\* ------------------------------------------------------------- layout
PageBreakings == {"Cut", "CutAndInsertEllipsis"}
Alignments == {"Start", "Center", "End"}

PREV_PAGE_ELLIPSIS == <<ASCII_DOT, ASCII_DOT>>

\* TextLayout::initial_cursor
initial_cursor(l) ==
    [x |-> l.bounds.x0,
     y |-> l.bounds.y0 + text_height(l.style.text_font) + l.padding_top]

Max(a, b) == IF a >= b THEN a ELSE b

\* TextLayout::bottom_y
bottom_y(l) == Max(l.bounds.y1 - l.padding_bottom, l.bounds.y0)

\* layout_height with the bottom padding left out.
layout_height_no_padding_bottom(l, init, end) ==
    l.padding_top + text_height(l.style.text_font) + (end.y - init.y)

\* layout_height measuring from the end cursor up to the initial one.
layout_height_upwards(l, init, end) ==
    l.padding_top + text_height(l.style.text_font) + (init.y - end.y) + l.padding_bottom

\* TextLayout::layout_height
layout_height(l, init, end) ==
    l.padding_top + text_height(l.style.text_font) + (end.y - init.y) + l.padding_bottom

\* LayoutSink::prev_page_ellipsis: the width the marker takes.
prev_page_ellipsis(l) == text_width(l.style.text_font, PREV_PAGE_ELLIPSIS)

\* The first check of layout_text against the box, the padding forgotten.
StartsOutOfBoundsNoPadding(l, cur) == cur.y > l.bounds.y1

\* The first check of layout_text: no room for even one line.
StartsOutOfBounds(l, cur) == cur.y > bottom_y(l)

\* is_last_line of layout_text.
is_last_line(l, cur) == cur.y + line_height(l.style.text_font) > bottom_y(l)

\* line_ending_space with no width kept free on the last line.
line_ending_space_none(l, cur) == None

\* line_ending_space with one more column kept free than the marker takes.
line_ending_space_wider(l, cur) ==
    IF is_last_line(l, cur)
    THEN Some(text_width(l.style.text_font, PREV_PAGE_ELLIPSIS) + 1)
    ELSE None

\* line_ending_space of layout_text.
line_ending_space(l, cur) ==
    IF is_last_line(l, cur)
    THEN Some(text_width(l.style.text_font, PREV_PAGE_ELLIPSIS))
    ELSE None

\* The shift of block alignment with the centre rounded down instead of
\* towards zero.
AlignShiftFloor(align, remaining_width, span) ==
    CASE align = "Start" -> 0
      [] align = "Center" -> (remaining_width - span.advance.x) \div 2
      [] align = "End" -> remaining_width - span.advance.x

\* The shift of the cursor that block alignment asks for.
AlignShift(align, remaining_width, span) ==
    CASE align = "Start" -> 0
      [] align = "Center" -> TruncDiv(remaining_width - span.advance.x, 2)
      [] align = "End" -> remaining_width - span.advance.x

\* The check for the page's end against the box, the padding forgotten.
PageIsFullBelowBox(l, cur, span) == cur.y + span.advance.y > l.bounds.y1

\* Whether the line break after the span leaves the page.
PageIsFull(l, cur, span) == cur.y + span.advance.y > bottom_y(l)

\* should_append_ellipsis matching the other page-breaking policy.
should_append_ellipsis_on_cut(l, span, rest) ==
    /\ rest # <<>>
    /\ l.style.page_breaking = "Cut"
    /\ ~span.insert_hyphen_before_line_break

\* should_append_ellipsis without the check that text remains.
should_append_ellipsis_at_end(l, span, rest) ==
    /\ l.style.page_breaking = "CutAndInsertEllipsis"
    /\ ~span.insert_hyphen_before_line_break

\* should_append_ellipsis of layout_text, with the check that text remains.
should_append_ellipsis(l, span, rest) ==
    /\ rest # <<>>
    /\ l.style.page_breaking = "CutAndInsertEllipsis"
    /\ ~span.insert_hyphen_before_line_break

\* processed_chars counting the bytes left instead of the bytes consumed.
ProcessedCharsLeft(t, rest) == Len(rest)

\* processed_chars of the OutOfBounds result.
ProcessedChars(t, rest) == Len(t) - Len(rest)

\* The text left after a span when skip_next_chars is forgotten.
RestAfterNoSkip(rem, span) == Slice(rem, span.length, Len(rem))

\* The text left after a span: &remaining_text[length + skip_next_chars..].
RestAfter(rem, span) == Slice(rem, span.length + span.skip_next_chars, Len(rem))

Event(kind, cur, t) == [kind |-> kind, cursor |-> cur, text |-> t]

\* The sink calls of one round with the ellipsis reported at every line break
\* that leaves text behind, after a hyphen or not.
SpanEventsEllipsisAtEveryBreak(l, rem, span, at, after) ==
    (IF span.length > 0
     THEN <<Event("text", at, Slice(rem, 0, span.length))>> ELSE <<>>)
    \o (IF span.advance.y > 0 /\ span.insert_hyphen_before_line_break
        THEN <<Event("hyphen", after, <<>>)>> ELSE <<>>)
    \o (IF span.advance.y > 0 /\ RestAfter(rem, span) # <<>>
        THEN <<Event("ellipsis", after, <<>>)>> ELSE <<>>)
    \o (IF span.advance.y > 0 /\ PageIsFull(l, after, span)
        THEN <<Event("out_of_bounds", NoCursor, <<>>)>>
        ELSE <<>>)
    \o (IF span.advance.y > 0 /\ ~PageIsFull(l, after, span)
        THEN <<Event("line_break",
                     [x |-> l.bounds.x0, y |-> after.y + span.advance.y], <<>>)>>
        ELSE <<>>)

\* The sink calls of one round with the page's end left unreported.
SpanEventsNoOutOfBounds(l, rem, span, at, after) ==
    (IF span.length > 0
     THEN <<Event("text", at, Slice(rem, 0, span.length))>> ELSE <<>>)
    \o (IF span.advance.y > 0 /\ span.insert_hyphen_before_line_break
        THEN <<Event("hyphen", after, <<>>)>> ELSE <<>>)
    \o (IF span.advance.y > 0 /\ PageIsFull(l, after, span)
           /\ should_append_ellipsis(l, span, RestAfter(rem, span))
        THEN <<Event("ellipsis", after, <<>>)>> ELSE <<>>)
    \o (IF span.advance.y > 0 /\ ~PageIsFull(l, after, span)
        THEN <<Event("line_break",
                     [x |-> l.bounds.x0, y |-> after.y + span.advance.y], <<>>)>>
        ELSE <<>>)

\* The sink calls of one round of the loop of layout_text; at is the cursor
\* after the alignment shift, after the cursor after the horizontal advance.
SpanEvents(l, rem, span, at, after) ==
    (IF span.length > 0
     THEN <<Event("text", at, Slice(rem, 0, span.length))>> ELSE <<>>)
    \o (IF span.advance.y > 0 /\ span.insert_hyphen_before_line_break
        THEN <<Event("hyphen", after, <<>>)>> ELSE <<>>)
    \o (IF span.advance.y > 0 /\ PageIsFull(l, after, span)
        THEN (IF should_append_ellipsis(l, span, RestAfter(rem, span))
              THEN <<Event("ellipsis", after, <<>>)>> ELSE <<>>)
             \o <<Event("out_of_bounds", NoCursor, <<>>)>>
        ELSE <<>>)
    \o (IF span.advance.y > 0 /\ ~PageIsFull(l, after, span)
        THEN <<Event("line_break",
                     [x |-> l.bounds.x0, y |-> after.y + span.advance.y], <<>>)>>
        ELSE <<>>)

\* ------------------------------------------------------------- sinks
\* The implementations of LayoutSink.  A sink holds what it has put out: the
\* display calls of TextRenderer, the strings of TraceSink, nothing for
\* TextNoOp.
SinkKinds == {"TextNoOp", "TextRenderer", "TraceSink"}

Sink(kind) == [kind |-> kind, out |-> <<>>]
NoSink == [kind |-> "none", out |-> <<>>]

ELLIPSIS == <<ASCII_DOT, ASCII_DOT, ASCII_DOT>>

DisplayText(op, at, t, color) == [op |-> op, at |-> at, text |-> t, color |-> color]
IconDraw(at, color) == [op |-> "icon_draw", at |-> at, text |-> <<>>, color |-> color]
TraceString(t) == [op |-> "string", at |-> NoCursor, text |-> t, color |-> "none"]

\* What TextRenderer does with one call.
TextRendererCall(l, e) ==
    CASE e.kind = "text" ->
           (CASE l.style.line_alignment = "Start" ->
                   <<DisplayText("text_left", e.cursor, e.text, "text_color")>>
              [] l.style.line_alignment = "Center" ->
                   <<DisplayText("text_center",
                                 [x |-> e.cursor.x + TruncDiv(l.bounds.x1 - e.cursor.x, 2),
                                  y |-> e.cursor.y],
                                 e.text, "text_color")>>
              [] l.style.line_alignment = "End" ->
                   <<DisplayText("text_right", [x |-> l.bounds.x1, y |-> e.cursor.y],
                                 e.text, "text_color")>>)
      [] e.kind = "hyphen" ->
           <<DisplayText("text_left", e.cursor, <<ASCII_HYPHEN>>, "hyphen_color")>>
      [] e.kind = "ellipsis" ->
           IF l.style.ellipsis_icon
           THEN <<IconDraw([x |-> e.cursor.x + 2, y |-> e.cursor.y + 1], "ellipsis_color")>>
           ELSE <<DisplayText("text_left", e.cursor, ELLIPSIS, "ellipsis_color")>>
      [] e.kind = "prev_page_ellipsis" ->
           IF l.style.prev_page_ellipsis_icon
           THEN <<IconDraw(e.cursor, "ellipsis_color")>>
           ELSE <<DisplayText("text_left", e.cursor, PREV_PAGE_ELLIPSIS, "ellipsis_color")>>
      [] OTHER -> <<>>

\* What TraceSink does with one call.
TraceSinkCall(l, e) ==
    CASE e.kind = "text" -> <<TraceString(e.text)>>
      [] e.kind = "hyphen" -> <<TraceString(<<ASCII_HYPHEN>>)>>
      [] e.kind = "ellipsis" -> <<TraceString(ELLIPSIS)>>
      [] e.kind = "prev_page_ellipsis" -> <<TraceString(PREV_PAGE_ELLIPSIS)>>
      [] e.kind = "line_break" -> <<TraceString(<<ASCII_LF>>)>>
      [] OTHER -> <<>>

\* What a sink of the given kind does with one call.
SinkCall(kind, l, e) ==
    CASE kind = "TextRenderer" -> TextRendererCall(l, e)
      [] kind = "TraceSink" -> TraceSinkCall(l, e)
      [] OTHER -> <<>>

RECURSIVE SinkCalls(_, _, _)
SinkCalls(kind, l, es) ==
    IF es = <<>> THEN <<>>
    ELSE SinkCall(kind, l, Head(es)) \o SinkCalls(kind, l, Tail(es))

\* The sink after the calls es.
Report(s, l, es) == [s EXCEPT !.out = @ \o SinkCalls(s.kind, l, es)]

\* prev_page_ellipsis of a renderer that reports the width of what it drew:
\* an icon, wider than two dots.
SinkPrevPageEllipsisDrawn(kind, l) ==
    IF kind = "TextRenderer" /\ l.style.prev_page_ellipsis_icon
    THEN text_width(l.style.text_font, PREV_PAGE_ELLIPSIS) + 1
    ELSE text_width(l.style.text_font, PREV_PAGE_ELLIPSIS)

\* The width a sink's prev_page_ellipsis returns.
SinkPrevPageEllipsis(kind, l) ==
    CASE kind = "TextRenderer" -> text_width(l.style.text_font, PREV_PAGE_ELLIPSIS)
      [] kind = "TraceSink" -> text_width(l.style.text_font, PREV_PAGE_ELLIPSIS)
      [] OTHER -> prev_page_ellipsis(l)

\* ------------------------------------------------------------- spans_from
\* tests::spans_from, with the font, the breaking policy and the reserved end
\* width as inputs: fit a span, keep it, drop length + skip_next_chars bytes,
\* until the text is empty.
MaxWidths == -1..MaxWidth
LineEndingSpaces == {None, Some(1), Some(2)}
Fonts == {FIXED_FONT, PROP_FONT}

SpanInit ==
    /\ text \in Texts(MaxSpanChars)
    /\ args \in [max_width : MaxWidths, font : Fonts, breaking : LineBreakings,
                 line_ending_space : LineEndingSpaces]
    /\ remaining_text = text
    /\ spans = <<>>
    /\ pc = "spans_from"
    /\ layout = NoLayout
    /\ continues = FALSE
    /\ init_cursor = NoCursor
    /\ cursor = NoCursor
    /\ events = <<>>
    /\ fit = NoFit
    /\ sink = NoSink
    /\ calls = <<>>
    /\ frame = NoFrame
    /\ ret = NoRet

\* One round of the loop of spans_from that goes round again.
spans_from_fit ==
    /\ pc = "spans_from"
    /\ Len(spans) < MaxSpans
    /\ \E span \in {fit_horizontally(remaining_text, args.max_width, args.font,
                                      args.breaking, args.line_ending_space)} :
       \E rest \in {Slice(remaining_text, span.length + span.skip_next_chars,
                          Len(remaining_text))} :
           /\ spans' = Append(spans, [text |-> remaining_text, span |-> span, cursor |-> NoCursor])
           /\ remaining_text' = rest
           /\ pc' = IF rest = <<>> THEN "done" ELSE "spans_from"
    /\ UNCHANGED <<text, layout, continues, init_cursor, cursor, events, fit, args,
                   sink, calls, frame, ret>>

SpanNext == spans_from_fit

SpecSpan == SpanInit /\ [][SpanNext]_vars

\* ------------------------------------------------------------- layout_text
\* The layouts: TextLayout::new(style) with bounds and paddings set.  The
\* box starts at (1, 1); Vertical lists <<height, padding_top, padding_bottom>>.
BoxWidths == 0..3
Vertical == {<<0, 0, 0>>, <<1, 0, 0>>, <<2, 0, 0>>, <<3, 0, 0>>,
             <<4, 1, 1>>, <<3, -1, 0>>, <<1, 0, 2>>}

\* TextStyle::new with the line and page breaking set: no icons, lines
\* aligned to the start.
Style(lb, pb) ==
    [text_font |-> PROP_FONT, line_breaking |-> lb, page_breaking |-> pb,
     line_alignment |-> "Start", ellipsis_icon |-> FALSE,
     prev_page_ellipsis_icon |-> FALSE]

Layout(w, v, lb, pb, al) ==
    [bounds |-> [x0 |-> 1, y0 |-> 1, x1 |-> 1 + w, y1 |-> 1 + v[1]],
     padding_top |-> v[2],
     padding_bottom |-> v[3],
     style |-> Style(lb, pb),
     align |-> al]

Layouts ==
    {Layout(w, v, lb, pb, "Start") :
        w \in BoxWidths, v \in Vertical, lb \in LineBreakings, pb \in PageBreakings}

NoArgs == [none |-> TRUE]

Init ==
    /\ text \in Texts(MaxChars)
    /\ layout \in Layouts
    /\ continues \in BOOLEAN
    /\ init_cursor = initial_cursor(layout)
    /\ cursor = init_cursor
    /\ remaining_text = text
    /\ events = <<>>
    /\ fit = NoFit
    /\ args = NoArgs
    /\ spans = <<>>
    /\ pc = "layout_text"
    /\ sink = Sink("TextNoOp")
    /\ calls = <<>>
    /\ frame = NoFrame
    /\ ret = NoRet

\* layout_text, lines 185-192: the box is not high enough for one line.
layout_text_no_room ==
    /\ pc = "layout_text"
    /\ StartsOutOfBounds(layout, cursor)
    /\ events' = Append(events, Event("out_of_bounds", NoCursor, <<>>))
    /\ sink' = Report(sink, layout, <<Event("out_of_bounds", NoCursor, <<>>)>>)
    /\ fit' = [kind |-> "OutOfBounds", processed_chars |-> 0, height |-> 0]
    /\ pc' = "done"
    /\ UNCHANGED <<text, layout, continues, init_cursor, cursor, remaining_text,
                   args, spans, calls, frame, ret>>

\* layout_text with the lines 194-198 left out: no marker for a text that
\* continues.
layout_text_begin_no_marker ==
    /\ pc = "layout_text"
    /\ ~StartsOutOfBounds(layout, cursor)
    /\ pc' = "loop"
    /\ UNCHANGED <<text, layout, continues, init_cursor, cursor, remaining_text,
                   events, fit, args, spans, sink, calls, frame, ret>>

\* layout_text, lines 194-198: the marker of a text that continues.
layout_text_begin ==
    /\ pc = "layout_text"
    /\ ~StartsOutOfBounds(layout, cursor)
    /\ IF continues
       THEN /\ events' = Append(events, Event("prev_page_ellipsis", cursor, <<>>))
            /\ sink' = Report(sink, layout, <<Event("prev_page_ellipsis", cursor, <<>>)>>)
            /\ cursor' = [cursor EXCEPT !.x = @ + SinkPrevPageEllipsis(sink.kind, layout)]
       ELSE UNCHANGED <<events, cursor, sink>>
    /\ pc' = "loop"
    /\ UNCHANGED <<text, layout, continues, init_cursor, remaining_text, fit,
                   args, spans, calls, frame, ret>>

\* One round of the loop with the line break leaving cursor.x where the span
\* ended (line 273 left out).
layout_text_span_no_reset ==
    /\ pc = "loop"
    /\ remaining_text # <<>>
    /\ \E a \in {[text |-> remaining_text,
                  max_width |-> layout.bounds.x1 - cursor.x,
                  font |-> layout.style.text_font,
                  breaking |-> layout.style.line_breaking,
                  line_ending_space |-> line_ending_space(layout, cursor)]} :
       \E span \in {fit_horizontally(a.text, a.max_width, a.font, a.breaking,
                                     a.line_ending_space)} :
       \E at \in {[cursor EXCEPT !.x = @ + AlignShift(layout.align, a.max_width, span)]} :
       \E after \in {[at EXCEPT !.x = @ + span.advance.x]} :
       \E rest \in {RestAfter(remaining_text, span)} :
          /\ args' = a
          /\ spans' = Append(spans, [text |-> remaining_text, span |-> span, cursor |-> cursor])
          /\ events' = events \o SpanEvents(layout, remaining_text, span, at, after)
          /\ sink' = Report(sink, layout,
                            SpanEvents(layout, remaining_text, span, at, after))
          /\ remaining_text' = rest
          /\ IF span.advance.y > 0 /\ PageIsFull(layout, after, span)
             THEN /\ cursor' = after
                  /\ fit' = [kind |-> "OutOfBounds",
                             processed_chars |-> ProcessedChars(text, rest),
                             height |-> layout_height(layout, init_cursor, after)]
                  /\ pc' = "done"
             ELSE /\ cursor' = IF span.advance.y > 0
                               THEN [x |-> after.x, y |-> after.y + span.advance.y]
                               ELSE after
                  /\ UNCHANGED <<fit, pc>>
    /\ UNCHANGED <<text, layout, continues, init_cursor, calls, frame, ret>>

\* layout_text, lines 200-281: one round of the loop.
layout_text_span ==
    /\ pc = "loop"
    /\ remaining_text # <<>>
    /\ \E a \in {[text |-> remaining_text,
                  max_width |-> layout.bounds.x1 - cursor.x,
                  font |-> layout.style.text_font,
                  breaking |-> layout.style.line_breaking,
                  line_ending_space |-> line_ending_space(layout, cursor)]} :
       \E span \in {fit_horizontally(a.text, a.max_width, a.font, a.breaking,
                                     a.line_ending_space)} :
       \E at \in {[cursor EXCEPT !.x = @ + AlignShift(layout.align, a.max_width, span)]} :
       \E after \in {[at EXCEPT !.x = @ + span.advance.x]} :
       \E rest \in {RestAfter(remaining_text, span)} :
          /\ args' = a
          /\ spans' = Append(spans, [text |-> remaining_text, span |-> span, cursor |-> cursor])
          /\ events' = events \o SpanEvents(layout, remaining_text, span, at, after)
          /\ sink' = Report(sink, layout,
                            SpanEvents(layout, remaining_text, span, at, after))
          /\ remaining_text' = rest
          /\ IF span.advance.y > 0 /\ PageIsFull(layout, after, span)
             THEN /\ cursor' = after
                  /\ fit' = [kind |-> "OutOfBounds",
                             processed_chars |-> ProcessedChars(text, rest),
                             height |-> layout_height(layout, init_cursor, after)]
                  /\ pc' = "done"
             ELSE /\ cursor' = IF span.advance.y > 0
                               THEN [x |-> layout.bounds.x0,
                                     y |-> after.y + span.advance.y]
                               ELSE after
                  /\ UNCHANGED <<fit, pc>>
    /\ UNCHANGED <<text, layout, continues, init_cursor, calls, frame, ret>>

\* layout_text, lines 283-286: the text is used up.
layout_text_fitting ==
    /\ pc = "loop"
    /\ remaining_text = <<>>
    /\ fit' = [kind |-> "Fitting",
               processed_chars |-> Len(text),
               height |-> layout_height(layout, init_cursor, cursor)]
    /\ pc' = "done"
    /\ UNCHANGED <<text, layout, continues, init_cursor, cursor, remaining_text,
                   events, args, spans, sink, calls, frame, ret>>

Next ==
    \/ layout_text_no_room
    \/ layout_text_begin
    \/ layout_text_span
    \/ layout_text_fitting

Spec == Init /\ [][Next]_vars

\* ------------------------------------------------------------- repeated passes
\* A pass that has returned: what it was given and what it left behind.
Returned ==
    [text |-> text, continues |-> continues, layout |-> layout, sink |-> sink,
     init_cursor |-> init_cursor, cursor |-> cursor, fit |-> fit,
     events |-> events]

\* The cursor a pass is given when the one before it left cur behind and
\* that cursor is used again.
StaleCursor(l, cur) == cur

\* The cursor fit_text and render_text give to layout_text:
\* &mut self.initial_cursor(), made anew at each call.
FreshCursor(l, cur) == initial_cursor(l)

\* A new pass over the layout: layout_text(t, &mut initial_cursor(), s, continues).
Call(t, s) ==
    /\ calls' = Append(calls, Returned)
    /\ text' = t
    /\ remaining_text' = t
    /\ sink' = s
    /\ init_cursor' = FreshCursor(layout, cursor)
    /\ cursor' = FreshCursor(layout, cursor)
    /\ events' = <<>>
    /\ spans' = <<>>
    /\ args' = NoArgs
    /\ fit' = NoFit
    /\ pc' = "layout_text"
    /\ UNCHANGED <<layout, continues, frame, ret>>

\* fit_text, then fit_text, render_text or a traced pass with the same text.
MaxSinkChars == 2

with_ellipsis_icon(style) == [style EXCEPT !.ellipsis_icon = TRUE]
with_prev_page_icon(style) == [style EXCEPT !.prev_page_ellipsis_icon = TRUE]

\* The layouts, without icons and with both.
SinkLayouts ==
    Layouts \cup
    {[l EXCEPT !.style = with_prev_page_icon(with_ellipsis_icon(l.style))] :
        l \in Layouts}

SinkInit ==
    /\ text \in Texts(MaxSinkChars)
    /\ layout \in SinkLayouts
    /\ continues \in BOOLEAN
    /\ init_cursor = initial_cursor(layout)
    /\ cursor = init_cursor
    /\ remaining_text = text
    /\ events = <<>>
    /\ fit = NoFit
    /\ args = NoArgs
    /\ spans = <<>>
    /\ pc = "layout_text"
    /\ sink = Sink("TextNoOp")
    /\ calls = <<>>
    /\ frame = NoFrame
    /\ ret = NoRet

\* The second pass over the same text, with any sink.
layout_text_again ==
    /\ pc = "done"
    /\ calls = <<>>
    /\ \E kind \in SinkKinds : Call(text, Sink(kind))

SinkNext ==
    \/ layout_text_no_room
    \/ layout_text_begin
    \/ layout_text_span
    \/ layout_text_fitting
    \/ layout_text_again

SpecSink == SinkInit /\ [][SinkNext]_vars

\* fit_text(t, false) of a text, then of the text with more text appended.
MaxAppendChars == 2
MaxAppended == 1

\* The layouts of the measured texts: the page breaking of TextStyle::new
\* (it has no part in the LayoutFit), boxes at least one column wide.
AppendLayouts ==
    {l \in Layouts :
        /\ l.style.page_breaking = "CutAndInsertEllipsis"
        /\ l.bounds.x1 > l.bounds.x0}

AppendInit ==
    /\ text \in Texts(MaxAppendChars)
    /\ layout \in AppendLayouts
    /\ continues = FALSE
    /\ init_cursor = initial_cursor(layout)
    /\ cursor = init_cursor
    /\ remaining_text = text
    /\ events = <<>>
    /\ fit = NoFit
    /\ args = NoArgs
    /\ spans = <<>>
    /\ pc = "layout_text"
    /\ sink = Sink("TextNoOp")
    /\ calls = <<>>
    /\ frame = NoFrame
    /\ ret = NoRet

fit_text_appended ==
    /\ pc = "done"
    /\ calls = <<>>
    /\ \E more \in Texts(MaxAppended) \ {<<>>} : Call(text \o more, Sink("TextNoOp"))

AppendNext ==
    \/ layout_text_no_room
    \/ layout_text_begin
    \/ layout_text_span
    \/ layout_text_fitting
    \/ fit_text_appended

SpecAppend == AppendInit /\ [][AppendNext]_vars

\* ------------------------------------------------------------- termination
\* layout_text as a sequential program that always takes its next step, over
\* both fonts and from cursors on and beyond the first line's left end.
MaxLiveChars == 2

\* The layouts of these passes: boxes in which no character fits and boxes
\* two columns wide, with no room, one line or more, in both fonts; the page
\* breaking of TextStyle::new.
LiveLayouts ==
    {[l EXCEPT !.style.text_font = f] :
        l \in {k \in Layouts :
                  /\ k.style.page_breaking = "CutAndInsertEllipsis"
                  /\ k.bounds.x1 - k.bounds.x0 \in {0, 2}
                  /\ k.bounds.y1 - k.bounds.y0 \in {0, 1, 3}},
        f \in {PROP_FONT, SMALL_FONT}}

\* The cursors a caller passes: the initial cursor, or one past the right
\* edge of the box on the same line.
StartCursors(l) ==
    {initial_cursor(l), [initial_cursor(l) EXCEPT !.x = l.bounds.x1 + 1]}

LiveInit ==
    /\ text \in Texts(MaxLiveChars)
    /\ layout \in LiveLayouts
    /\ continues = FALSE
    /\ init_cursor \in StartCursors(layout)
    /\ cursor = init_cursor
    /\ remaining_text = text
    /\ events = <<>>
    /\ fit = NoFit
    /\ args = NoArgs
    /\ spans = <<>>
    /\ pc = "layout_text"
    /\ sink = Sink("TextNoOp")
    /\ calls = <<>>
    /\ frame = NoFrame
    /\ ret = NoRet

SpecLive == LiveInit /\ [][Next]_vars /\ WF_vars(Next)

\* ------------------------------------------------------------- block alignment
\* fit_text of a text over a layout of any block alignment, then over the
\* same layout with another alignment (TextLayout::with_align).
MaxAlignChars == 2

\* The layouts with each block alignment; the page breaking of TextStyle::new.
AlignLayouts ==
    {[l EXCEPT !.align = al] :
        l \in {k \in Layouts : k.style.page_breaking = "CutAndInsertEllipsis"},
        al \in Alignments}

AlignInit ==
    /\ text \in Texts(MaxAlignChars)
    /\ layout \in AlignLayouts
    /\ continues \in BOOLEAN
    /\ init_cursor = initial_cursor(layout)
    /\ cursor = init_cursor
    /\ remaining_text = text
    /\ events = <<>>
    /\ fit = NoFit
    /\ args = NoArgs
    /\ spans = <<>>
    /\ pc = "layout_text"
    /\ sink = Sink("TextNoOp")
    /\ calls = <<>>
    /\ frame = NoFrame
    /\ ret = NoRet

\* with_align(al).fit_text(text, continues) once the first pass has returned.
fit_text_with_align ==
    /\ pc = "done"
    /\ calls = <<>>
    /\ \E al \in Alignments \ {layout.align} :
        /\ layout' = [layout EXCEPT !.align = al]
        /\ calls' = Append(calls, Returned)
        /\ remaining_text' = text
        /\ sink' = Sink("TextNoOp")
        /\ init_cursor' = initial_cursor(layout')
        /\ cursor' = initial_cursor(layout')
        /\ events' = <<>>
        /\ spans' = <<>>
        /\ args' = NoArgs
        /\ fit' = NoFit
        /\ pc' = "layout_text"
        /\ UNCHANGED <<text, continues, frame, ret>>

AlignNext ==
    \/ layout_text_no_room
    \/ layout_text_begin
    \/ layout_text_span
    \/ layout_text_fitting
    \/ fit_text_with_align

SpecAlign == AlignInit /\ [][AlignNext]_vars

\* ------------------------------------------------------------- pagination
\* The caller's loop over pages: fit_text of the text and, on OutOfBounds,
\* fit_text of the unconsumed suffix on the next page, continued or not.
MaxPageChars == 3

\* The layouts of the pages: boxes of one, two, four and six columns, with no
\* room, one line or two; the page breaking of TextStyle::new.
PageLayouts ==
    {[l EXCEPT !.bounds.x1 = l.bounds.x0 + w] :
        l \in {k \in Layouts :
                  /\ k.style.page_breaking = "CutAndInsertEllipsis"
                  /\ k.bounds.x1 = k.bounds.x0
                  /\ k.padding_top = 0 /\ k.padding_bottom = 0
                  /\ k.bounds.y1 - k.bounds.y0 \in {0, 1, 3}},
        w \in {1, 2, 4, 6}}

PagesInit ==
    /\ text \in Texts(MaxPageChars)
    /\ layout \in PageLayouts
    /\ continues = FALSE
    /\ init_cursor = initial_cursor(layout)
    /\ cursor = init_cursor
    /\ remaining_text = text
    /\ events = <<>>
    /\ fit = NoFit
    /\ args = NoArgs
    /\ spans = <<>>
    /\ pc = "layout_text"
    /\ sink = Sink("TextNoOp")
    /\ calls = <<>>
    /\ frame = NoFrame
    /\ ret = NoRet

\* fit_text(&text[processed_chars..], continues) after an OutOfBounds result.
fit_text_next_page ==
    /\ pc = "done"
    /\ fit.kind = "OutOfBounds"
    /\ \E c \in BOOLEAN :
        /\ continues' = c
        /\ text' = Slice(text, fit.processed_chars, Len(text))
        /\ remaining_text' = Slice(text, fit.processed_chars, Len(text))
        /\ sink' = Sink("TextNoOp")
        /\ init_cursor' = initial_cursor(layout)
        /\ cursor' = initial_cursor(layout)
        /\ events' = <<>>
        /\ spans' = <<>>
        /\ args' = NoArgs
        /\ fit' = NoFit
        /\ pc' = "layout_text"
        /\ UNCHANGED <<layout, calls, frame, ret>>

PagesNext ==
    \/ layout_text_no_room
    \/ layout_text_begin
    \/ layout_text_span
    \/ layout_text_fitting
    \/ fit_text_next_page

SpecPages == PagesInit /\ [][PagesNext]_vars /\ WF_vars(PagesNext)

\* ------------------------------------------------------------- the tests' texts
\* spans_from as the tests call it: the Fixed font, BreakAtWhitespace, no
\* reserved end width, over the texts of the tests and the widths up to
\* theirs.
TEST_WIDTH == 5

Hello == <<104, 101, 108, 108, 111>>
World == <<119, 111, 114, 108, 100>>

\* "\nhello\nworld\n" of test_leading_trailing.
LeadingTrailing == <<ASCII_LF>> \o Hello \o <<ASCII_LF>> \o World \o <<ASCII_LF>>

\* "Down with the establishment!" of test_long_word.
LongWord ==
    <<68, 111, 119, 110, 32, 119, 105, 116, 104, 32, 116, 104, 101, 32,
      101, 115, 116, 97, 98, 108, 105, 115, 104, 109, 101, 110, 116, 33>>

\* "+ěščřžýáíé" of test_char_boundary.
CharBoundary == Encode(<<43, 283, 353, 269, 345, 382, 253, 225, 237, 233>>)

TestTexts ==
    {<<>>, Hello,
     Hello \o <<ASCII_SPACE>> \o World,
     Hello \o <<ASCII_LF>> \o World,
     LeadingTrailing, LongWord, CharBoundary}

TestInit ==
    /\ text \in TestTexts
    /\ args \in [max_width : 0..TEST_WIDTH, font : {FIXED_FONT},
                 breaking : {"BreakAtWhitespace"}, line_ending_space : {None}]
    /\ remaining_text = text
    /\ spans = <<>>
    /\ pc = "spans_from"
    /\ layout = NoLayout
    /\ continues = FALSE
    /\ init_cursor = NoCursor
    /\ cursor = NoCursor
    /\ events = <<>>
    /\ fit = NoFit
    /\ sink = NoSink
    /\ calls = <<>>
    /\ frame = NoFrame
    /\ ret = NoRet

TestNext == spans_from_fit

SpecTest == TestInit /\ [][TestNext]_vars

\* ------------------------------------------------------------- the Confirm dialog
\* run() over a Confirm: place, then one Confirm::event per touch event until
\* a message is returned.  A position is the area of the screen it lies in:
\* the left button, the right button, the corner where the info and the
\* close button are both placed, or elsewhere.
Areas == {"left", "right", "corner", "elsewhere"}
TouchEvents == [kind : {"TouchStart", "TouchMove", "TouchEnd"}, pos : Areas]

\* A button placed in an area, and an Option<Button> that is None.
Button(area) == [area |-> area, state |-> "Initial"]
NoButton == [area |-> "none", state |-> "None"]

\* Button::event on a touch event: the button afterwards and its message.
ButtonEvent(b, e) ==
    CASE e.kind = "TouchStart" ->
           IF e.pos = b.area
           THEN [button |-> [b EXCEPT !.state = "Pressed"], msg |-> "Pressed"]
           ELSE [button |-> b, msg |-> "None"]
      [] e.kind = "TouchMove" ->
           IF b.state = "Released" /\ e.pos = b.area
           THEN [button |-> [b EXCEPT !.state = "Pressed"], msg |-> "Pressed"]
           ELSE IF b.state = "Pressed" /\ e.pos # b.area
           THEN [button |-> [b EXCEPT !.state = "Released"], msg |-> "Released"]
           ELSE [button |-> b, msg |-> "None"]
      [] e.kind = "TouchEnd" ->
           IF b.state = "Initial"
           THEN [button |-> b, msg |-> "None"]
           ELSE IF b.state = "Pressed" /\ e.pos = b.area
           THEN [button |-> [b EXCEPT !.state = "Initial"], msg |-> "Clicked"]
           ELSE [button |-> [b EXCEPT !.state = "Initial"], msg |-> "None"]

\* Component::event of an Option<Button>: None does nothing.
OptionEvent(b, e) ==
    IF b = NoButton THEN [button |-> b, msg |-> "None"] ELSE ButtonEvent(b, e)

\* Confirm::new and Confirm::place: the info and the close button exist only
\* with info given, and both are placed in the corner.
ConfirmNew(confirm_left, info) ==
    [left |-> Button("left"),
     right |-> Button("right"),
     info_button |-> IF info THEN Button("corner") ELSE NoButton,
     close_button |-> IF info THEN Button("corner") ELSE NoButton,
     show_info |-> FALSE,
     confirm_left |-> confirm_left]

\* The message of a click on the left button (lines 141-145).
left_msg(confirm_left) == IF confirm_left THEN "Confirm" ELSE "Cancel"

\* The message of a click on the right button, the same as the left one's.
right_msg_as_left(confirm_left) == IF confirm_left THEN "Confirm" ELSE "Cancel"

\* The message of a click on the right button (lines 148-152).
right_msg(confirm_left) == IF confirm_left THEN "Cancel" ELSE "Confirm"

\* The corner button with the info button evaluated in both views.
corner_button_info_always(f) == "info_button"

\* The corner button Confirm::event evaluates first (lines 126-133).
corner_button(f) == IF f.show_info THEN "close_button" ELSE "info_button"

\* Confirm::event: the dialog afterwards, the message returned, the buttons
\* whose event was evaluated, in order, and those that reported a click.
ConfirmEvent(f, e) ==
    LET cb == corner_button(f)
        c == OptionEvent(f[cb], e)
        f1 == [f EXCEPT ![cb] = c.button]
        l == ButtonEvent(f1.left, e)
        f2 == [f1 EXCEPT !.left = l.button]
        r == ButtonEvent(f2.right, e)
        f3 == [f2 EXCEPT !.right = r.button]
    IN  IF c.msg = "Clicked"
        THEN [frame |-> [f1 EXCEPT !.show_info = (cb = "info_button")],
              msg |-> "None", evaluated |-> <<cb>>, clicked |-> {cb}]
        ELSE IF l.msg = "Clicked"
        THEN [frame |-> f2, msg |-> left_msg(f.confirm_left),
              evaluated |-> <<cb, "left">>, clicked |-> {"left"}]
        ELSE IF r.msg = "Clicked"
        THEN [frame |-> f3, msg |-> right_msg(f.confirm_left),
              evaluated |-> <<cb, "left", "right">>, clicked |-> {"right"}]
        ELSE [frame |-> f3, msg |-> "None",
              evaluated |-> <<cb, "left", "right">>, clicked |-> {}]

ConfirmInit ==
    /\ frame \in {ConfirmNew(confirm_left, info) :
                     confirm_left \in BOOLEAN, info \in BOOLEAN}
    /\ ret = NoRet
    /\ pc = "run"
    /\ text = <<>>
    /\ remaining_text = <<>>
    /\ layout = NoLayout
    /\ continues = FALSE
    /\ init_cursor = NoCursor
    /\ cursor = NoCursor
    /\ events = <<>>
    /\ fit = NoFit
    /\ args = NoArgs
    /\ spans = <<>>
    /\ sink = NoSink
    /\ calls = <<>>

\* One round of the loop of run() with a touch event: frame.event, and the
\* return once it yields a message.
run_event ==
    /\ pc = "run"
    /\ \E e \in TouchEvents :
       \E r \in {ConfirmEvent(frame, e)} :
          /\ frame' = r.frame
          /\ ret' = [event |-> e, msg |-> r.msg, evaluated |-> r.evaluated,
                     clicked |-> r.clicked]
          /\ pc' = IF r.msg = "None" THEN "run" ELSE "returned"
    /\ UNCHANGED <<text, layout, continues, init_cursor, cursor, remaining_text,
                   events, fit, args, spans, sink, calls>>

ConfirmNext == run_event

SpecConfirm == ConfirmInit /\ [][ConfirmNext]_vars

\* ------------------------------------------------------------- properties
Last(seq) == seq[Len(seq)]

IsTextEvent(e) == e.kind = "text"

\* C1, as stated: layout_text returns Fitting only with processed_chars equal
\* to the length of the text, and OutOfBounds only with processed_chars
\* strictly less than it.
C1_StrictlyLess ==
    pc = "done" =>
        /\ fit.kind = "Fitting" => fit.processed_chars = Len(text)
        /\ fit.kind = "OutOfBounds" => fit.processed_chars < Len(text)

\* C1, amended: layout_text returns Fitting only with processed_chars equal to
\* the length of the text and nothing left; it returns OutOfBounds with
\* processed_chars equal to the bytes consumed, at most the length of the
\* text, and equal to it only when the text is empty or ends with the LF or
\* CR whose line break left the page.
C1_ProcessedChars ==
    pc = "done" =>
        /\ fit.kind \in {"Fitting", "OutOfBounds"}
        /\ fit.kind = "Fitting" =>
              fit.processed_chars = Len(text) /\ remaining_text = <<>>
        /\ fit.kind = "OutOfBounds" =>
              /\ fit.processed_chars + Len(remaining_text) = Len(text)
              /\ remaining_text = Slice(text, fit.processed_chars, Len(text))
              /\ fit.processed_chars = Len(text) =>
                    text = <<>> \/ Last(text) \in {ASCII_LF, ASCII_CR}

\* An OutOfBounds result that consumed the whole of a text that is not empty.
C1_Witness ==
    /\ pc = "done"
    /\ fit.kind = "OutOfBounds"
    /\ text # <<>>
    /\ fit.processed_chars = Len(text)

\* The bytes the spans stand for: each span's text followed by the bytes it
\* skips.
RECURSIVE Consumed(_)
Consumed(ss) ==
    IF ss = <<>> THEN <<>>
    ELSE Slice(Head(ss).text, 0, Head(ss).span.length)
         \o Slice(Head(ss).text, Head(ss).span.length,
                  Head(ss).span.length + Head(ss).span.skip_next_chars)
         \o Consumed(Tail(ss))

\* The substrings of the text events, in order.
RECURSIVE EventTexts(_)
EventTexts(es) ==
    IF es = <<>> THEN <<>>
    ELSE (IF IsTextEvent(Head(es)) THEN <<Head(es).text>> ELSE <<>>)
         \o EventTexts(Tail(es))

\* The texts of the spans that have any, in order.
RECURSIVE SpanTexts(_)
SpanTexts(ss) ==
    IF ss = <<>> THEN <<>>
    ELSE (IF Head(ss).span.length > 0
          THEN <<Slice(Head(ss).text, 0, Head(ss).span.length)>> ELSE <<>>)
         \o SpanTexts(Tail(ss))

\* C2: at every point of a layout_text pass the text events carry the texts
\* of the spans that have any, in order; these texts, each followed by the
\* bytes its span skips, make up exactly the consumed prefix of the text
\* (text[..processed_chars] at the return); and a skipped byte is the space,
\* LF or CR at the span's length.
C2_ByteAccounting ==
    pc \in {"loop", "done"} =>
        /\ EventTexts(events) = SpanTexts(spans)
        /\ Consumed(spans) = Slice(text, 0, Len(text) - Len(remaining_text))
        /\ (pc = "done" /\ spans # <<>>) =>
              Consumed(spans) = Slice(text, 0, fit.processed_chars)
        /\ \A n \in 1..Len(spans) :
              /\ spans[n].span.skip_next_chars \in {0, 1}
              /\ spans[n].span.skip_next_chars = 1 =>
                    is_whitespace(spans[n].text[spans[n].span.length + 1])

\* A finished pass with two text events and a skipped byte between them.
C2_Witness ==
    /\ pc = "done"
    /\ Len(EventTexts(events)) >= 2
    /\ \E n \in 1..Len(spans) :
          spans[n].span.skip_next_chars = 1 /\ spans[n].span.length > 0

\* ------------------------------------------------------------- span properties
\* Width of the first k characters of a text, by char_width.
RECURSIVE PrefixWidth(_, _, _)
PrefixWidth(font, cis, k) ==
    IF k = 0 THEN 0
    ELSE PrefixWidth(font, cis, k - 1) + char_width(font, cis[k][2])

\* Byte offset of the end of the k-th character of t.
EndOfChar(t, cis, k) == IF k < Len(cis) THEN cis[k + 1][1] ELSE Len(t)

\* The characters whose width does not fit after the ones before them.
Overflowing(font, cis, mw) ==
    {k \in 1..Len(cis) : PrefixWidth(font, cis, k) > mw}

Least(S) == CHOOSE k \in S : \A j \in S : k <= j
Greatest(S) == CHOOSE k \in S : \A j \in S : k >= j

\* The first character that overflows max_width.
OverflowPoint(font, cis, mw) == Least(Overflowing(font, cis, mw))

\* C3, of the span just returned: the span fit_horizontally returns has
\* length and length + skip_next_chars on character boundaries of the text it was given, and
\* length + skip_next_chars is at most the length of that text.
C3_CharBoundaries ==
    spans # <<>> =>
        /\ is_char_boundary(Last(spans).text, Last(spans).span.length)
        /\ is_char_boundary(Last(spans).text,
                            Last(spans).span.length + Last(spans).span.skip_next_chars)
        /\ Last(spans).span.length + Last(spans).span.skip_next_chars
              <= Len(Last(spans).text)

\* A span that breaks a text right after a two-byte character.
C3_Witness ==
    \E n \in 1..Len(spans) :
        /\ spans[n].span.length > 0
        /\ spans[n].span.length < Len(spans[n].text)
        /\ spans[n].span.skip_next_chars = 0
        /\ IsContinuationByte(spans[n].text[spans[n].span.length])

\* The spaces within the width budget, up to the overflow point.
C4_Spaces(a, cis) ==
    {k \in 1..OverflowPoint(a.font, cis, a.max_width) :
        cis[k][2] = ASCII_SPACE /\ PrefixWidth(a.font, cis, k - 1) <= a.max_width}

\* The case of C4 for one call: break-at-whitespace, no reserved end width,
\* the text overflows, no LF or CR up to the overflow point (a hard break
\* ends the line before it), and a space lies at or before the overflow point.
C4_Case(a, t, cis) ==
    /\ a.breaking = "BreakAtWhitespace"
    /\ ~a.line_ending_space.some
    /\ Overflowing(a.font, cis, a.max_width) # {}
    /\ \A k \in 1..OverflowPoint(a.font, cis, a.max_width) :
          cis[k][2] \notin {ASCII_LF, ASCII_CR}
    /\ C4_Spaces(a, cis) # {}

C4_LastSpace(a, cis) == Greatest(C4_Spaces(a, cis))

C4_Stated(a, t, cis, span) ==
    C4_Case(a, t, cis) =>
        /\ span.length = cis[C4_LastSpace(a, cis)][1]
        /\ span.skip_next_chars = 1
        /\ ~span.insert_hyphen_before_line_break

\* C4, as stated (for lines without LF or CR), of the span just returned:
\* under break-at-whitespace with no reserved end width, when the text does not fit and a whitespace lies
\* within the width budget, the span ends at the last whitespace before the
\* overflow point, skips it, and has no hyphen.
C4_BreaksAtLastWhitespace ==
    (pc \in {"spans_from", "done"} /\ layout = NoLayout /\ spans # <<>>) =>
        C4_Stated(args, Last(spans).text, char_indices(Last(spans).text),
                  Last(spans).span)

\* The case of C5 for one call: break-at-whitespace, no reserved end width,
\* the text overflows and no whitespace lies at or before the overflow point.
C5_Case(a, t, cis) ==
    /\ a.breaking = "BreakAtWhitespace"
    /\ ~a.line_ending_space.some
    /\ Overflowing(a.font, cis, a.max_width) # {}
    /\ \A k \in 1..OverflowPoint(a.font, cis, a.max_width) : ~is_whitespace(cis[k][2])

\* The numbers of leading characters that fit together with a hyphen.
C5_Fitting(a, cis) ==
    {k \in 0..Len(cis) :
        PrefixWidth(a.font, cis, k) + char_width(a.font, ASCII_HYPHEN) <= a.max_width}

C5_Stated(a, t, cis, span) ==
    (C5_Case(a, t, cis) /\ C5_Fitting(a, cis) # {}) =>
        /\ span.length = EndOfChar(t, cis, Greatest(C5_Fitting(a, cis)))
        /\ span.insert_hyphen_before_line_break
        /\ span.skip_next_chars = 0

\* C5, as stated, of the span just returned: in that case the span is the
\* longest prefix of whole characters whose width plus the hyphen's is at most max_width, with the
\* hyphen and nothing skipped.
C5_LongestPrefixHyphen ==
    (pc \in {"spans_from", "done"} /\ layout = NoLayout /\ spans # <<>>) =>
        C5_Stated(args, Last(spans).text, char_indices(Last(spans).text),
                  Last(spans).span)

C5_Amended(a, t, cis, span) ==
    /\ (/\ C5_Case(a, t, cis)
        /\ C5_Fitting(a, cis) \ {0} # {}) =>
            /\ span.length = EndOfChar(t, cis, Greatest(C5_Fitting(a, cis)))
            /\ span.insert_hyphen_before_line_break
            /\ span.skip_next_chars = 0
            /\ span.advance = [x |-> PrefixWidth(a.font, cis, Greatest(C5_Fitting(a, cis))),
                               y |-> line_height(a.font)]
    /\ (/\ C5_Case(a, t, cis)
        /\ C5_Fitting(a, cis) \ {0} = {}) =>
            /\ span.length = 0
            /\ ~span.insert_hyphen_before_line_break
            /\ span.skip_next_chars = 0
            /\ span.advance = [x |-> 0, y |-> line_height(a.font)]
    /\ (/\ a.breaking = "BreakAtWhitespace"
        /\ ~a.line_ending_space.some
        /\ text_width(a.font, t) <= a.max_width) =>
            ~span.insert_hyphen_before_line_break

\* C5, amended, of the span just returned: in that case, when at least one
\* character fits together with the hyphen the span is the longest such prefix, with the hyphen,
\* nothing skipped and a full line advance; when not even one does, the span
\* is the zero-length span without a hyphen; a text that fits entirely
\* carries no hyphen.
C5_LongestPrefixOrEmpty ==
    (pc \in {"spans_from", "done"} /\ layout = NoLayout /\ spans # <<>>) =>
        C5_Amended(args, Last(spans).text, char_indices(Last(spans).text),
                   Last(spans).span)

\* A word broken with a hyphen, and its last part, which has none.
C5_Witness ==
    /\ pc = "done"
    /\ layout = NoLayout
    /\ args.breaking = "BreakAtWhitespace"
    /\ ~args.line_ending_space.some
    /\ Len(spans) >= 2
    /\ C5_Case(args, spans[1].text, char_indices(spans[1].text))
    /\ spans[1].span.insert_hyphen_before_line_break
    /\ spans[1].span.length > 0
    /\ ~Last(spans).span.insert_hyphen_before_line_break
    /\ Last(spans).span.length > 0

\* The reserved end width that applies at a whitespace: none when the whole
\* text fits.
C6_ReservedEnd(a, t) ==
    IF text_width(a.font, t) <= a.max_width THEN 0
    ELSE unwrap_or(a.line_ending_space, 0)

\* Whether the scan ends at the j-th character: a hard break within the
\* budget, or a character that overflows.
C6_EndsAt(a, t, cis, j) ==
    IF /\ is_whitespace(cis[j][2])
       /\ PrefixWidth(a.font, cis, j - 1) + C6_ReservedEnd(a, t) <= a.max_width
    THEN cis[j][2] \in {ASCII_LF, ASCII_CR}
    ELSE PrefixWidth(a.font, cis, j) > a.max_width

\* The scan reaches the k-th character, an LF, within the budget.
C6_Case(a, t, cis, k) ==
    /\ cis[k][2] = ASCII_LF
    /\ \A j \in 1..(k - 1) : ~C6_EndsAt(a, t, cis, j)
    /\ PrefixWidth(a.font, cis, k - 1) + C6_ReservedEnd(a, t) <= a.max_width

C6_Holds(a, t, cis, span) ==
    \A k \in 1..Len(cis) :
        C6_Case(a, t, cis, k) =>
            span = [length |-> cis[k][1],
                    skip_next_chars |-> 1,
                    insert_hyphen_before_line_break |-> FALSE,
                    advance |-> [x |-> PrefixWidth(a.font, cis, k - 1),
                                 y |-> line_height(a.font)]]

\* C6, of the span just returned: when the scan of fit_horizontally reaches an LF with the width so far
\* plus the reserved end width within max_width, the span ends at the LF,
\* skips it, has no hyphen, advances horizontally by the width of the text
\* before the LF and vertically by one full line height, whatever follows.
C6_HardBreakAtLF ==
    (pc \in {"spans_from", "done"} /\ layout = NoLayout /\ spans # <<>>) =>
        C6_Holds(args, Last(spans).text, char_indices(Last(spans).text),
                 Last(spans).span)

\* A span that ends at an LF with text before and after it.
C6_Witness ==
    /\ layout = NoLayout
    /\ \E n \in 1..Len(spans) :
          /\ spans[n].span.length > 0
          /\ spans[n].span.length + 1 < Len(spans[n].text)
          /\ spans[n].text[spans[n].span.length + 1] = ASCII_LF
          /\ args.line_ending_space.some
          /\ text_width(args.font, spans[n].text) > args.max_width

\* ------------------------------------------------------------- pass properties
IsLineEnd(b) == b = ASCII_LF \/ b = ASCII_CR

\* Number of LF and CR bytes in a text.
RECURSIVE LineEnds(_)
LineEnds(t) ==
    IF t = <<>> THEN 0
    ELSE (IF IsLineEnd(Head(t)) THEN 1 ELSE 0) + LineEnds(Tail(t))

\* Number of spans that skip an LF or a CR.
RECURSIVE SkippedLineEnds(_)
SkippedLineEnds(ss) ==
    IF ss = <<>> THEN 0
    ELSE (IF /\ Head(ss).span.skip_next_chars = 1
             /\ IsLineEnd(Head(ss).text[Head(ss).span.length + 1])
          THEN 1 ELSE 0) + SkippedLineEnds(Tail(ss))

\* C7: in a layout_text pass no text event's substring contains an LF or a
\* CR, and every LF or CR of the consumed prefix is the skipped byte of a span.
C7_NoLineEndInText ==
    pc \in {"loop", "done"} =>
        /\ \A i \in 1..Len(events) :
              IsTextEvent(events[i]) =>
                  \A j \in 1..Len(events[i].text) : ~IsLineEnd(events[i].text[j])
        /\ LineEnds(Slice(text, 0, Len(text) - Len(remaining_text)))
              = SkippedLineEnds(spans)

\* A finished pass that put text before a CR and consumed the CR.
C7_Witness ==
    /\ pc = "done"
    /\ \E n \in 1..Len(spans) :
          /\ spans[n].span.length > 0
          /\ spans[n].span.skip_next_chars = 1
          /\ spans[n].text[spans[n].span.length + 1] = ASCII_CR
    /\ \E i \in 1..Len(events) : IsTextEvent(events[i])

\* C8: a pass called with cursor.y greater than bottom_y reports the single
\* event out_of_bounds, returns OutOfBounds with processed_chars 0 and
\* height 0, consumes nothing and leaves the cursor where it was, with no
\* continuation marker even when the text continues from the previous page.
C8_NoRoom ==
    (pc = "done" /\ init_cursor.y > Max(layout.bounds.y1 - layout.padding_bottom,
                                        layout.bounds.y0)) =>
        /\ events = <<Event("out_of_bounds", NoCursor, <<>>)>>
        /\ fit = [kind |-> "OutOfBounds", processed_chars |-> 0, height |-> 0]
        /\ cursor = init_cursor
        /\ remaining_text = text
        /\ spans = <<>>

\* A pass of a continued, non-empty text that found no room, in a box whose
\* bottom padding takes the room away.
C8_Witness ==
    /\ pc = "done"
    /\ continues
    /\ text # <<>>
    /\ init_cursor.y > bottom_y(layout)
    /\ init_cursor.y <= layout.bounds.y1

\* The line break of the last span left the page.
LastSpanFilledPage ==
    /\ spans # <<>>
    /\ Last(spans).span.advance.y > 0
    /\ Last(spans).cursor.y + Last(spans).span.advance.y > bottom_y(layout)

\* C9: with CutAndInsertEllipsis, when a line break would move the cursor
\* past bottom_y while input remains, the pass ends with the text of the line
\* (when the line has any), then an ellipsis event where the text ends, then
\* out_of_bounds, and returns OutOfBounds.
C9_EllipsisBeforeOutOfBounds ==
    (/\ pc \in {"loop", "done"}
     /\ layout.style.page_breaking = "CutAndInsertEllipsis"
     /\ LastSpanFilledPage
     /\ remaining_text # <<>>) =>
        /\ pc = "done"
        /\ fit.kind = "OutOfBounds"
        /\ Len(events) >= 2
        /\ Last(events).kind = "out_of_bounds"
        /\ events[Len(events) - 1] = Event("ellipsis", cursor, <<>>)
        /\ Last(spans).span.length > 0 =>
              /\ Len(events) >= 3
              /\ events[Len(events) - 2].kind = "text"
              /\ events[Len(events) - 2].text =
                    Slice(Last(spans).text, 0, Last(spans).span.length)
              /\ events[Len(events) - 2].cursor.y = cursor.y
              /\ events[Len(events) - 2].cursor.x + Last(spans).span.advance.x = cursor.x

\* A pass that ended with text, ellipsis, out_of_bounds.
C9_Witness ==
    /\ pc = "done"
    /\ Len(events) >= 3
    /\ events[Len(events) - 2].kind = "text"
    /\ events[Len(events) - 1].kind = "ellipsis"
    /\ Last(events).kind = "out_of_bounds"
    /\ fit.kind = "OutOfBounds"

\* Number of ellipsis events.
RECURSIVE Ellipses(_)
Ellipses(es) ==
    IF es = <<>> THEN 0
    ELSE (IF Head(es).kind = "ellipsis" THEN 1 ELSE 0) + Ellipses(Tail(es))

\* C10: a pass reports at most one ellipsis event, and only under
\* CutAndInsertEllipsis with input left after the span that filled the page;
\* under Cut, or when that span used up the text, the pass ends with
\* out_of_bounds and OutOfBounds and reports no ellipsis.
C10_EllipsisOnlyWithInputLeft ==
    pc \in {"loop", "done"} =>
        /\ Ellipses(events) <= 1
        /\ Ellipses(events) = 1 =>
              /\ layout.style.page_breaking = "CutAndInsertEllipsis"
              /\ remaining_text # <<>>
              /\ LastSpanFilledPage
              /\ pc = "done"
              /\ fit.kind = "OutOfBounds"
        /\ (/\ LastSpanFilledPage
            /\ layout.style.page_breaking = "Cut" \/ remaining_text = <<>>) =>
              /\ pc = "done"
              /\ fit.kind = "OutOfBounds"
              /\ Last(events).kind = "out_of_bounds"
              /\ Ellipses(events) = 0

\* A pass under CutAndInsertEllipsis whose last span put text on the line,
\* used up the input and filled the page.
C10_Witness ==
    /\ pc = "done"
    /\ layout.style.page_breaking = "CutAndInsertEllipsis"
    /\ LastSpanFilledPage
    /\ Last(spans).span.length > 0
    /\ remaining_text = <<>>
    /\ fit.kind = "OutOfBounds"

\* The events at positions i..j hold a line break.
LineBreakBetween(es, i, j) == \E k \in i..j : es[k].kind = "line_break"

\* C11: in a layout_text pass no ellipsis event is reported for a line on
\* which a hyphen event was reported: a line break lies between any hyphen
\* event and any later ellipsis event, and a span that carries a hyphen never
\* is the one whose line break leaves the page.
C11_HyphenExcludesEllipsis ==
    pc \in {"loop", "done"} =>
        /\ \A i \in 1..Len(events) : \A j \in i..Len(events) :
              (events[i].kind = "hyphen" /\ events[j].kind = "ellipsis") =>
                  LineBreakBetween(events, i, j)
        /\ \A i \in 1..Len(events) : \A j \in 1..Len(events) :
              (events[i].kind = "hyphen" /\ events[j].kind = "ellipsis") =>
                  events[i].cursor.y # events[j].cursor.y

\* A pass that reported a hyphen on one line and an ellipsis on a later one.
C11_Witness ==
    /\ pc = "done"
    /\ \E i \in 1..Len(events) : \E j \in i..Len(events) :
          events[i].kind = "hyphen" /\ events[j].kind = "ellipsis"

\* Number of line_break events.
RECURSIVE LineBreaks(_)
LineBreaks(es) ==
    IF es = <<>> THEN 0
    ELSE (IF Head(es).kind = "line_break" THEN 1 ELSE 0) + LineBreaks(Tail(es))

\* The vertical advances of the spans whose line break stayed on the page.
RECURSIVE AdvancedY(_, _)
AdvancedY(l, ss) ==
    IF ss = <<>> THEN 0
    ELSE (IF Head(ss).cursor.y + Head(ss).span.advance.y > bottom_y(l)
          THEN 0 ELSE Head(ss).span.advance.y)
         + AdvancedY(l, Tail(ss))

\* C12: a layout_text pass that passes the initial bounds check returns, for
\* Fitting and for OutOfBounds, the height padding_top + text_height +
\* (final cursor.y - initial cursor.y) + padding_bottom, where the cursor has
\* moved down by the vertical advances of the line breaks that stayed on the
\* page; a pass with no line break returns padding_top + text_height +
\* padding_bottom.
C12_Height ==
    (pc = "done" /\ init_cursor.y <= bottom_y(layout)) =>
        /\ fit.kind \in {"Fitting", "OutOfBounds"}
        /\ fit.height = layout.padding_top + text_height(layout.style.text_font)
                        + (cursor.y - init_cursor.y) + layout.padding_bottom
        /\ cursor.y - init_cursor.y = AdvancedY(layout, spans)
        /\ LineBreaks(events) = 0 =>
              fit.height = layout.padding_top + text_height(layout.style.text_font)
                           + layout.padding_bottom

\* An OutOfBounds result after a line break, in a box with paddings.
C12_Witness ==
    /\ pc = "done"
    /\ fit.kind = "OutOfBounds"
    /\ LineBreaks(events) >= 1
    /\ layout.padding_top # 0
    /\ cursor.y > init_cursor.y

\* C13: when fit_text returns Fitting for a text and for the text with more
\* text appended, with the same layout and continuation flag, the height for
\* the longer text is at least the height for the shorter one.
C13_HeightMonotone ==
    (/\ pc = "done"
     /\ calls # <<>>
     /\ calls[1].fit.kind = "Fitting"
     /\ fit.kind = "Fitting") =>
        /\ Slice(text, 0, Len(calls[1].text)) = calls[1].text
        /\ calls[1].continues = continues
        /\ fit.height >= calls[1].fit.height

\* Two Fitting results, the second for a longer text and strictly higher.
C13_Witness ==
    /\ pc = "done"
    /\ calls # <<>>
    /\ calls[1].text # <<>>
    /\ calls[1].fit.kind = "Fitting"
    /\ fit.kind = "Fitting"
    /\ Len(text) > Len(calls[1].text)
    /\ fit.height > calls[1].fit.height

C15_SinkIndependent ==
    /\ \A kind \in SinkKinds :
          SinkPrevPageEllipsis(kind, layout)
              = text_width(layout.style.text_font, PREV_PAGE_ELLIPSIS)
    /\ (pc = "done" /\ calls # <<>>) =>
          /\ calls[1].text = text
          /\ calls[1].continues = continues
          /\ calls[1].layout = layout
          /\ calls[1].init_cursor = init_cursor
          /\ fit = calls[1].fit
          /\ cursor = calls[1].cursor
          /\ events = calls[1].events

\* A measured pass and then a rendered one, of a text that continues, with the
\* icon drawn as the marker and text drawn after it.
C15_Witness ==
    /\ pc = "done"
    /\ calls # <<>>
    /\ calls[1].sink.kind = "TextNoOp"
    /\ sink.kind = "TextRenderer"
    /\ continues
    /\ layout.style.prev_page_ellipsis_icon
    /\ Len(sink.out) >= 2
    /\ sink.out[1].op = "icon_draw"
    /\ sink.out[2].op = "text_left"
    /\ sink.out[2].at.x = init_cursor.x + text_width(layout.style.text_font, PREV_PAGE_ELLIPSIS)

\* One round of the loop of layout_text makes progress: it consumes at least
\* one byte, or breaks the line and moves the cursor down, or returns
\* OutOfBounds.
LoopProgress ==
    (pc = "loop" /\ remaining_text # <<>>) =>
        \/ Len(remaining_text') < Len(remaining_text)
        \/ /\ cursor'.y > cursor.y
           /\ Last(events').kind = "line_break"
        \/ pc' = "done" /\ fit'.kind = "OutOfBounds"

\* C16: with a font of positive line height, layout_text terminates for
\* every text, bounds and cursor: every round of its loop consumes at least
\* one byte, or makes a line break that moves the cursor down, or returns
\* OutOfBounds, and the pass returns in the end.
C16_Terminates ==
    /\ [][LoopProgress]_vars
    /\ <>(pc = "done")

\* A pass in which no character fits: it reported line breaks and no text and
\* ended out of bounds with nothing consumed.
C16_Witness ==
    /\ pc = "done"
    /\ text # <<>>
    /\ fit.kind = "OutOfBounds"
    /\ fit.processed_chars = 0
    /\ LineBreaks(events) >= 1
    /\ EventTexts(events) = <<>>

\* The characters of a text that are LF or CR.
HardBreaks(cis) == {k \in 1..Len(cis) : IsLineEnd(cis[k][2])}

\* The span that is the whole text, with no break.
WholeText(a, t) ==
    [length |-> Len(t),
     skip_next_chars |-> 0,
     advance |-> [x |-> text_width(a.font, t), y |-> 0],
     insert_hyphen_before_line_break |-> FALSE]

\* The span that ends at the k-th character, an LF or a CR.
HardBreakAt(a, cis, k) ==
    [length |-> cis[k][1],
     skip_next_chars |-> 1,
     advance |-> [x |-> PrefixWidth(a.font, cis, k - 1),
                  y |-> IF cis[k][2] = ASCII_CR
                        THEN line_height(a.font) \div 2 ELSE line_height(a.font)],
     insert_hyphen_before_line_break |-> FALSE]

C17_Stated(a, t, span) ==
    text_width(a.font, t) <= a.max_width => span = WholeText(a, t)

\* C17, as stated, of the span just returned: when the whole text fits within
\* max_width, fit_horizontally returns it as one span with no break: length
\* text.len(), nothing skipped, no hyphen, the text's width as horizontal
\* advance and no vertical advance.
C17_WholeTextOneSpan ==
    (pc \in {"spans_from", "done"} /\ layout = NoLayout /\ spans # <<>>) =>
        C17_Stated(args, Last(spans).text, Last(spans).span)

\* The span that is the whole text, advancing by the widths of its characters.
WholeTextByChars(a, t, cis) ==
    [WholeText(a, t) EXCEPT !.advance.x = PrefixWidth(a.font, cis, Len(cis))]

C17_Amended(a, t, cis, span) ==
    text_width(a.font, t) <= a.max_width =>
        /\ HardBreaks(cis) = {} => span = WholeTextByChars(a, t, cis)
        /\ (HardBreaks(cis) = {} /\ ~a.font.fixed) => span = WholeText(a, t)
        /\ HardBreaks(cis) # {} => span = HardBreakAt(a, cis, Least(HardBreaks(cis)))

\* C17, amended, of the span just returned: when the whole text fits within
\* max_width and holds no LF or CR, fit_horizontally returns it as one span
\* with no break, advancing by the sum of the widths of its characters (the
\* text's width, for a font whose text_width is that sum); when it fits and
\* holds an LF or a CR, the span ends at the first of them, skips it, has no
\* hyphen, advances by the width before it and by one line height (half of
\* one at a CR).
C17_WholeTextOrHardBreak ==
    (pc \in {"spans_from", "done"} /\ layout = NoLayout /\ spans # <<>>) =>
        C17_Amended(args, Last(spans).text, char_indices(Last(spans).text),
                    Last(spans).span)

\* A text that fits and is split at its LF: the part before it, then the
\* rest as one span with no break.
C17_Witness ==
    /\ pc = "done"
    /\ layout = NoLayout
    /\ Len(spans) = 2
    /\ text_width(args.font, text) <= args.max_width
    /\ spans[1].span.length > 0
    /\ text[spans[1].span.length + 1] = ASCII_LF
    /\ spans[2].span = WholeTextByChars(args, spans[2].text, char_indices(spans[2].text))
    /\ spans[2].span.length > 0

\* The text is not empty and starts with a character that is no whitespace.
StartsWithWord(t) == t # <<>> /\ ~is_whitespace(char_indices(t)[1][2])

\* The span that places nothing and breaks the line.
EmptyLine(font) ==
    [length |-> 0,
     skip_next_chars |-> 0,
     advance |-> [x |-> 0, y |-> line_height(font)],
     insert_hyphen_before_line_break |-> FALSE]

\* C18: when max_width is zero or negative and the text starts with a
\* character that is no whitespace, fit_horizontally returns the zero-length
\* span (nothing skipped, no horizontal advance, one line height down, no
\* hyphen); and layout_text of such a text in a box of no width reports no
\* text event and returns OutOfBounds with processed_chars 0, after
\* out_of_bounds as its last event.
C18_DegenerateWidth ==
    /\ (/\ pc \in {"loop", "done"}
        /\ spans # <<>>
        /\ args.max_width <= 0
        /\ StartsWithWord(Last(spans).text)) =>
            Last(spans).span = EmptyLine(args.font)
    /\ (/\ pc \in {"loop", "done"}
        /\ layout.bounds.x1 - layout.bounds.x0 <= 0
        /\ StartsWithWord(text)) =>
            /\ EventTexts(events) = <<>>
            /\ remaining_text = text
            /\ pc = "done" =>
                  /\ fit.kind = "OutOfBounds"
                  /\ fit.processed_chars = 0
                  /\ Last(events).kind = "out_of_bounds"

\* A pass over a box of no width, the marker of a continued text before it,
\* that broke the line with nothing placed until the page was full.
C18_Witness ==
    /\ pc = "done"
    /\ layout.bounds.x1 = layout.bounds.x0
    /\ continues
    /\ StartsWithWord(text)
    /\ Len(spans) >= 2
    /\ layout.bounds.x1 - spans[1].cursor.x < 0
    /\ spans[1].span = EmptyLine(layout.style.text_font)
    /\ args.max_width = 0
    /\ Last(spans).span = EmptyLine(args.font)
    /\ fit = [kind |-> "OutOfBounds", processed_chars |-> 0,
              height |-> layout_height(layout, init_cursor, cursor)]

\* Number of prev_page_ellipsis events.
RECURSIVE Markers(_)
Markers(es) ==
    IF es = <<>> THEN 0
    ELSE (IF Head(es).kind = "prev_page_ellipsis" THEN 1 ELSE 0) + Markers(Tail(es))

\* The cursor after the continuation marker.
AfterMarker(l, cur) ==
    [cur EXCEPT !.x = @ + text_width(l.style.text_font, PREV_PAGE_ELLIPSIS)]

\* C19: a pass that passes the initial bounds check with
\* continues_from_prev_page set reports exactly one continuation-marker
\* event, as its first event and at the initial cursor, and fits its first
\* span from the cursor moved right by the marker's width; a pass without the
\* flag reports no continuation-marker event and fits its first span from the
\* initial cursor.
C19_ContinuationMarker ==
    /\ (pc \in {"loop", "done"} /\ ~StartsOutOfBounds(layout, init_cursor) /\ continues) =>
          /\ Markers(events) = 1
          /\ events[1] = Event("prev_page_ellipsis", init_cursor, <<>>)
          /\ spans # <<>> => spans[1].cursor = AfterMarker(layout, init_cursor)
          /\ spans = <<>> => cursor = AfterMarker(layout, init_cursor)
    /\ ~continues =>
          /\ Markers(events) = 0
          /\ spans # <<>> => spans[1].cursor = init_cursor

\* A pass of a text that continues: the marker, then text drawn to its right.
C19_Witness ==
    /\ pc = "done"
    /\ continues
    /\ Len(events) >= 2
    /\ events[1].kind = "prev_page_ellipsis"
    /\ events[2].kind = "text"
    /\ events[2].cursor = AfterMarker(layout, init_cursor)

\* The ellipsis events leave room for the marker before the right edge.
EllipsisHasRoom(e) ==
    e.cursor.x + text_width(layout.style.text_font, PREV_PAGE_ELLIPSIS)
        <= layout.bounds.x1

NewEvents == SubSeq(events', Len(events) + 1, Len(events'))

\* The shift of the three block alignments for a span fitted into
\* remaining_width.
C21_Shift(remaining_width, span) ==
    CASE layout.align = "Start" -> 0
      [] layout.align = "Center" ->
           IF remaining_width - span.advance.x >= 0
           THEN (remaining_width - span.advance.x) \div 2
           ELSE -((span.advance.x - remaining_width) \div 2)
      [] layout.align = "End" -> remaining_width - span.advance.x

\* One round of the loop reports its text at the shifted cursor, its hyphen
\* and ellipsis behind the span from there, and leaves the cursor there
\* unless it breaks the line.
C21_Round ==
    LET span == Last(spans').span
        remaining_width == layout.bounds.x1 - cursor.x
        at == cursor.x + C21_Shift(remaining_width, span)
    IN  /\ Len(spans') = Len(spans) + 1
        /\ \A i \in 1..Len(NewEvents) :
              /\ NewEvents[i].kind = "text" =>
                    /\ i = 1
                    /\ NewEvents[i].cursor = [x |-> at, y |-> cursor.y]
                    /\ layout.align = "End" => at + span.advance.x = layout.bounds.x1
              /\ NewEvents[i].kind \in {"hyphen", "ellipsis"} =>
                    NewEvents[i].cursor = [x |-> at + span.advance.x, y |-> cursor.y]
        /\ span.length > 0 => Len(NewEvents) >= 1 /\ NewEvents[1].kind = "text"
        /\ (span.advance.y = 0 \/ pc' = "done") =>
              cursor' = [x |-> at + span.advance.x, y |-> cursor.y]

\* C21: block alignment shifts the cursor before each span is emitted by 0
\* under Start, by (remaining_width - span.advance.x) / 2 under Center and by
\* remaining_width - span.advance.x under End, with remaining_width =
\* bounds.x1 - cursor.x; under End every text event is reported at a cursor
\* with cursor.x + span.advance.x = bounds.x1.
C21_BlockAlignment ==
    [][(pc = "loop" /\ remaining_text # <<>>) => C21_Round]_vars

\* A centred pass that reported a text one column right of the left edge, and
\* a pass aligned to the end that reported a text at all.
C21_Witness ==
    /\ pc = "done"
    /\ Len(spans) = 1
    /\ Len(events) >= 1
    /\ events[1].kind = "text"
    /\ \/ /\ layout.align = "Center"
          /\ spans[1].cursor.x = layout.bounds.x0
          /\ events[1].cursor.x = layout.bounds.x0 + 1
       \/ /\ layout.align = "End"
          /\ events[1].cursor.x > spans[1].cursor.x

\* The CRs of a text that the scan reaches within the width budget: no LF or
\* CR before them, and the characters before them fit together with the
\* width kept free at a whitespace break.
CRsReached(a, t, cis) ==
    {k \in 1..Len(cis) :
        /\ cis[k][2] = ASCII_CR
        /\ \A j \in 1..(k - 1) : ~IsLineEnd(cis[j][2])
        /\ PrefixWidth(a.font, cis, k - 1)
             + complete_word_end_width(a.font, t, a.max_width, a.line_ending_space)
             <= a.max_width}

\* The span of a text with a CR reached within the budget.
C22_Span(a, t, cis, span) ==
    \A k \in CRsReached(a, t, cis) :
        /\ span.length = cis[k][1]
        /\ span.skip_next_chars = 1
        /\ span.advance = [x |-> PrefixWidth(a.font, cis, k - 1),
                           y |-> line_height(a.font) \div 2]
        /\ ~span.insert_hyphen_before_line_break

\* What layout_text has done right after the span s that ends at a CR.
C22_NewLine(s) ==
    \/ /\ pc = "loop" \/ (pc = "done" /\ fit.kind = "Fitting")
       /\ Last(events) =
            Event("line_break",
                  [x |-> layout.bounds.x0,
                   y |-> s.cursor.y + line_height(layout.style.text_font) \div 2],
                  <<>>)
       /\ cursor = Last(events).cursor
       /\ cursor.y > s.cursor.y
    \/ /\ pc = "done"
       /\ fit.kind = "OutOfBounds"
       /\ Last(events).kind = "out_of_bounds"

MidWordBreak(span) ==
    span.advance.y > 0 /\ span.length > 0 /\ span.skip_next_chars = 0

\* The character of the text at byte offset off.
CharAt(cis, off) == (CHOOSE ci \in {cis[k] : k \in 1..Len(cis)} : ci[1] = off)[2]

\* The span of a call with no reserved end width, under the two policies
\* that break words.
C23_Span(a, t, cis, span) ==
    /\ a.breaking = "BreakWordsNoHyphen" =>
          /\ ~span.insert_hyphen_before_line_break
          /\ (~a.line_ending_space.some /\ MidWordBreak(span)) =>
                /\ span.length < Len(t)
                /\ span.advance.x <= a.max_width
                /\ span.advance.x + char_width(a.font, CharAt(cis, span.length))
                     > a.max_width
    /\ (a.breaking = "BreakWordsAndInsertHyphen" /\ ~a.line_ending_space.some
          /\ MidWordBreak(span)) =>
          /\ span.insert_hyphen_before_line_break
          /\ span.advance.x + char_width(a.font, ASCII_HYPHEN) <= a.max_width

\* C23: under BreakWordsNoHyphen no span returned by fit_horizontally has
\* insert_hyphen_before_line_break set, so layout_text reports no hyphen
\* event, and with no reserved end width a mid-word break uses the full
\* max_width (the next character no longer fits, no width is held back);
\* under BreakWordsAndInsertHyphen a mid-word break on a line that is not
\* the last of the page carries the hyphen, which is reported, and leaves the
\* hyphen's width free.
C23_HyphenPolicy ==
    (pc \in {"loop", "done"} /\ spans # <<>>) =>
        /\ C23_Span(args, Last(spans).text, char_indices(Last(spans).text),
                    Last(spans).span)
        /\ layout.style.line_breaking = "BreakWordsNoHyphen" =>
              \A i \in 1..Len(events) : events[i].kind # "hyphen"
        /\ (layout.style.line_breaking = "BreakWordsAndInsertHyphen"
              /\ ~args.line_ending_space.some /\ MidWordBreak(Last(spans).span)) =>
              \E i \in 1..Len(events) :
                  /\ events[i].kind = "hyphen"
                  /\ events[i].cursor.x + char_width(args.font, ASCII_HYPHEN)
                       <= layout.bounds.x1

\* A pass without hyphens that broke a word with a span as wide as the box, and
\* a pass with hyphens that broke a word and reported the hyphen.
C23_Witness ==
    /\ pc = "done"
    /\ Len(spans) >= 2
    /\ MidWordBreak(spans[1].span)
    /\ \/ /\ layout.style.line_breaking = "BreakWordsNoHyphen"
          /\ spans[1].span.advance.x = layout.bounds.x1 - layout.bounds.x0
          /\ \A i \in 1..Len(events) : events[i].kind # "hyphen"
       \/ /\ layout.style.line_breaking = "BreakWordsAndInsertHyphen"
          /\ spans[1].span.insert_hyphen_before_line_break
          /\ events[2].kind = "hyphen"

\* The positions of the out_of_bounds events.
OutOfBoundsEvents(es) == {i \in 1..Len(es) : es[i].kind = "out_of_bounds"}

\* C24: the out_of_bounds event and the OutOfBounds result coincide: a pass
\* reports out_of_bounds exactly once, as its last event, if and only if it
\* returns OutOfBounds; a pass that returns Fitting reports none, and no event
\* of any kind follows an out_of_bounds event.
C24_OutOfBoundsCoincide ==
    /\ OutOfBoundsEvents(events) \subseteq {Len(events)}
    /\ OutOfBoundsEvents(events) # {} => pc = "done" /\ fit.kind = "OutOfBounds"
    /\ (pc = "done" /\ fit.kind = "OutOfBounds") => OutOfBoundsEvents(events) = {Len(events)}
    /\ (pc = "done" /\ fit.kind = "Fitting") => OutOfBoundsEvents(events) = {}
    /\ pc = "done" => fit.kind \in {"Fitting", "OutOfBounds"}

\* A pass that placed text, broke a line and left the page with text still to
\* place.
C24_Witness ==
    /\ pc = "done"
    /\ fit.kind = "OutOfBounds"
    /\ fit.processed_chars > 0
    /\ remaining_text # <<>>
    /\ Len(events) >= 4
    /\ OutOfBoundsEvents(events) = {Len(events)}
    /\ \E i \in 1..Len(events) : events[i].kind = "text"
    /\ \E i \in 1..Len(events) : events[i].kind = "line_break"

\* C25: a hyphen event is never reported on the last line that fits
\* vertically: whenever the reserved end width is given, fit_horizontally
\* returns insert_hyphen_before_line_break false, so every hyphen event of a
\* pass is immediately followed by a line_break event and never by an
\* ellipsis or out_of_bounds event.
C25_NoHyphenOnLastLine ==
    (pc \in {"loop", "done"} /\ spans # <<>>) =>
        /\ args.line_ending_space.some =>
              ~Last(spans).span.insert_hyphen_before_line_break
        /\ is_last_line(layout, Last(spans).cursor) => args.line_ending_space.some
        /\ \A i \in 1..Len(events) :
              events[i].kind = "hyphen" =>
                  /\ i < Len(events)
                  /\ events[i + 1].kind = "line_break"

\* A pass under a hyphenating policy that broke a word with a hyphen on one
\* line and then, on the last line with the end width reserved, fitted a text
\* too wide for it without a hyphen and left the page.
C25_Witness ==
    /\ pc = "done"
    /\ fit.kind = "OutOfBounds"
    /\ layout.style.line_breaking = "BreakWordsAndInsertHyphen"
    /\ \E i \in 1..Len(events) : events[i].kind = "hyphen"
    /\ args.line_ending_space.some
    /\ text_width(args.font, args.text) > args.max_width
    /\ ~Last(spans).span.insert_hyphen_before_line_break

\* C26, as stated: a fitted span never exceeds the horizontal budget: with
\* max_width >= 0 the span returned by fit_horizontally has advance.x <=
\* max_width, so with Start alignment no text event of layout_text extends
\* past bounds.x1.
C26_WithinBudget ==
    (pc \in {"loop", "done"} /\ spans # <<>>) =>
        /\ args.max_width >= 0 => Last(spans).span.advance.x <= args.max_width
        /\ layout.align = "Start" =>
              \A i \in 1..Len(events) :
                  events[i].kind = "text" =>
                      events[i].cursor.x
                        + text_width(layout.style.text_font, events[i].text)
                        <= layout.bounds.x1

\* The width of the widest character of a text.
Widest(font, t) ==
    Greatest({0} \cup {char_width(font, char_indices(t)[k][2]) : k \in 1..Len(char_indices(t))})

\* The precondition as stated: a non-empty text, bounds at least one line
\* high and at least as wide as the widest character.
C27_WideAsStated(l, t) ==
    /\ t # <<>>
    /\ initial_cursor(l).y <= bottom_y(l)
    /\ l.bounds.x1 - l.bounds.x0 >= Widest(l.style.text_font, t)

\* C27, as stated: with bounds at least one line high and at least as wide as
\* the widest character of the text, an OutOfBounds result of fit_text on a
\* non-empty text has processed_chars >= 1.
C27_ProgressAsStated ==
    (pc = "done" /\ fit.kind = "OutOfBounds" /\ C27_WideAsStated(layout, text)) =>
        fit.processed_chars >= 1

\* The width kept free at a mid-word break on the first line of a page when
\* the text does not fit.
FirstLineEndWidth(l) ==
    IF is_last_line(l, initial_cursor(l))
    THEN text_width(l.style.text_font, PREV_PAGE_ELLIPSIS)
    ELSE IF l.style.line_breaking # "BreakWordsNoHyphen"
    THEN char_width(l.style.text_font, ASCII_HYPHEN)
    ELSE 0

\* The precondition as amended: the first line has room for the widest
\* character behind the continuation marker, if any, and before the width
\* kept free at its end.
C27_Wide(l, t, c) ==
    /\ initial_cursor(l).y <= bottom_y(l)
    /\ l.bounds.x1 - l.bounds.x0 >=
          (IF c THEN prev_page_ellipsis(l) ELSE 0)
          + Widest(l.style.text_font, t) + FirstLineEndWidth(l)

\* A page that is started without that room.
C27_Narrow == pc = "layout_text" /\ ~C27_Wide(layout, text, continues)

\* C27, amended: with bounds at least one line high and at least as wide as
\* the continuation marker (when continued), the widest character of the
\* text and the width kept free at the end of the first line together, an
\* OutOfBounds result of fit_text on a non-empty text has processed_chars >=
\* 1, so re-invoking fit_text on the unconsumed suffix, as long as every page
\* has that room, eventually returns Fitting.
C27_PaginationProgress ==
    /\ []((pc = "done" /\ fit.kind = "OutOfBounds" /\ text # <<>>
             /\ C27_Wide(layout, text, continues)) =>
            fit.processed_chars >= 1)
    /\ <>(C27_Narrow \/ (pc = "done" /\ fit.kind = "Fitting"))

\* A continued page, so not the first, with that room that returned
\* OutOfBounds after consuming part of its text.
C27_Witness ==
    /\ pc = "done"
    /\ fit.kind = "OutOfBounds"
    /\ continues
    /\ C27_Wide(layout, text, continues)
    /\ fit.processed_chars >= 1
    /\ fit.processed_chars < Len(text)

\* The events that are reported at a cursor.
PlacedEvents(es) ==
    {i \in 1..Len(es) :
        es[i].kind \in {"text", "hyphen", "ellipsis", "line_break"}}

\* C28: throughout a layout_text pass that passes the initial bounds check,
\* cursor.y never decreases and never exceeds bottom_y, so every text,
\* hyphen, ellipsis and line_break event is reported at a cursor with y <=
\* bottom_y, and right after every line_break event cursor.x is bounds.x0.
C28_CursorWithinPage ==
    /\ []((pc \in {"loop", "done"} /\ ~StartsOutOfBounds(layout, init_cursor)) =>
            /\ init_cursor.y <= cursor.y
            /\ cursor.y <= bottom_y(layout)
            /\ \A i \in PlacedEvents(events) :
                  /\ init_cursor.y <= events[i].cursor.y
                  /\ events[i].cursor.y <= bottom_y(layout)
                  /\ events[i].kind = "line_break" =>
                        events[i].cursor.x = layout.bounds.x0
            /\ (events # <<>> /\ Last(events).kind = "line_break") =>
                  cursor = [x |-> layout.bounds.x0, y |-> Last(events).cursor.y])
    /\ [][cursor'.y >= cursor.y]_vars

\* A pass in a box with padding at the bottom that placed text, broke the line
\* onto the last line that fits, and left the page there.
C28_Witness ==
    /\ pc = "done"
    /\ fit.kind = "OutOfBounds"
    /\ layout.padding_bottom > 0
    /\ cursor.y = bottom_y(layout)
    /\ cursor.y > init_cursor.y
    /\ \E i \in PlacedEvents(events) :
          events[i].kind = "line_break" /\ events[i].cursor.y = bottom_y(layout)
    /\ \E i \in PlacedEvents(events) :
          events[i].kind = "text" /\ events[i].cursor.y = bottom_y(layout)

\* What spans_from returns: the text of each span and whether it carries a
\* hyphen.
SpansFrom ==
    [i \in 1..Len(spans) |->
        <<Slice(spans[i].text, 0, spans[i].span.length),
          spans[i].span.insert_hyphen_before_line_break>>]

\* C29, as stated: every leading or trailing LF produces its own zero-length
\* span: "\nhello\nworld\n" split by spans_from with the fixed font and
\* width 5 yields exactly the four spans "", "hello", "world", "", none with
\* a hyphen.
C29_LeadingTrailing ==
    (pc = "done" /\ text = LeadingTrailing /\ args.max_width = TEST_WIDTH) =>
        SpansFrom = <<<<(<<>>), FALSE>>, <<Hello, FALSE>>, <<World, FALSE>>,
                      <<(<<>>), FALSE>>>>

C31_LeftRightMessages ==
    /\ "left" \in ret.clicked =>
           ret.msg = (IF frame.confirm_left THEN "Confirm" ELSE "Cancel")
    /\ "right" \in ret.clicked =>
           ret.msg = (IF frame.confirm_left THEN "Cancel" ELSE "Confirm")
    /\ ~({"left", "right"} \subseteq ret.clicked)
    /\ ret.clicked \cap {"left", "right"} = {} => ret.msg = "None"

\* A click on the right button of a dialog that confirms on the right, with
\* the info view open.
C31_Witness ==
    /\ pc = "returned"
    /\ ret.clicked = {"right"}
    /\ ~frame.confirm_left
    /\ frame.show_info
    /\ ret.msg = "Confirm"


\* The buttons whose event the last call of Confirm::event evaluated.
Evaluated(r) == {r.evaluated[i] : i \in DOMAIN r.evaluated}

\* One call of Confirm::event seen from the info view: a click on the corner
\* button of the current view flips show_info, returns no message and leaves
\* the left and the right button alone; nothing else changes show_info; the
\* corner button of the other view is neither evaluated nor changed.
C32_Step ==
    LET shown == IF frame.show_info THEN "close_button" ELSE "info_button"
        hidden == IF frame.show_info THEN "info_button" ELSE "close_button"
    IN  /\ shown \in ret'.clicked =>
               /\ frame'.show_info = ~frame.show_info
               /\ ret'.msg = "None"
               /\ Evaluated(ret') \cap {"left", "right"} = {}
               /\ frame'.left = frame.left
               /\ frame'.right = frame.right
        /\ frame'.show_info # frame.show_info => shown \in ret'.clicked
        /\ hidden \notin Evaluated(ret')
        /\ hidden \notin ret'.clicked
        /\ frame'[hidden] = frame[hidden]

\* C32: show_info starts false; a click on the info button while it is false
\* sets it, a click on the close button while it is true clears it; either
\* click returns no message and does not reach the left and right buttons;
\* the info button is not evaluated while show_info is true, the close button
\* not while it is false; without info, show_info stays false forever.
C32_InfoToggle ==
    /\ ~frame.show_info
    /\ [][C32_Step]_vars
    /\ [](frame.info_button = NoButton => ~frame.show_info)

\* The info view opened and closed again, in a dialog with info.
C32_Witness ==
    /\ ~frame.show_info
    /\ ret.clicked = {"close_button"}
    /\ ret.msg = "None"
    /\ frame.info_button # NoButton

====
